---- MODULE Spec2Model ----
(***************************************************************************)
(* claude-sync: a relay (multi-tenant Server) and its clients              *)
(* (SyncService).  A client scans its local tree, sends a manifest of      *)
(* FileInfo records to POST /sync, and writes the records the relay        *)
(* returns.  The relay reconciles each manifest against the tenant's       *)
(* index by modification time.                                             *)
(*                                                                         *)
(* Representation.                                                         *)
(*   - a path is a sequence of segments (or of characters, for the path    *)
(*     mapping); bytes are a sequence of small integers;                   *)
(*   - a Go []byte that may be nil is a set with at most one element:      *)
(*     {} is nil, {b} is the slice holding the bytes b;                    *)
(*   - a Go map is a function on the set of its keys.                      *)
(***************************************************************************)
EXTENDS Integers, Sequences, FiniteSets, TLC

\* ------------------------------------------------------------------ bounds
\* largest value of the clock (file modification times are 1..MaxTime)
MaxTime == 2
\* largest number of records in one manifest sent to the relay directly
MaxManifest == 1
\* longest path given to the path mapping
MaxPathLen == 4
\* longest prefix of a path-mapping pair
MaxPrefixLen == 2
\* longest path given to a mapping of two pairs
MaxOrderPathLen == 3

\* ------------------------------------------------------------- Go helpers
Nil == {}
Some(b) == {b}
Bytes(c) == CHOOSE b \in c : TRUE
\* len() of a []byte: 0 for nil and for the empty slice
GoLen(c) == IF c = Nil THEN 0 ELSE Len(Bytes(c))

\* m[k] = v on a Go map
Put(f, k, v) == [x \in DOMAIN f \cup {k} |-> IF x = k THEN v ELSE f[x]]
\* delete(m, k)
Drop(f, k) == [x \in DOMAIN f \ {k} |-> f[x]]
EmptyMap == [x \in {} |-> 0]

\* sha256 + hex: injective on the bytes of the model; never the empty string
Hash(d) == <<0>> \o d
EmptyString == <<>>

\* --------------------------------------------------------------- strings
\* strings.Index: position of the first occurrence of sub in s, 0 if none
Index(s, sub) ==
    LET hits == {i \in 1..(Len(s) - Len(sub) + 1) : SubSeq(s, i, i + Len(sub) - 1) = sub}
    IN  IF hits = {} THEN 0 ELSE CHOOSE i \in hits : \A j \in hits : i <= j

\* strings.Contains
Contains(s, sub) == Index(s, sub) # 0

\* strings.Replace(s, old, new, 1)
ReplaceFirst(s, old, new) ==
    LET i == Index(s, old)
    IN  IF i = 0 THEN s
        ELSE SubSeq(s, 1, i - 1) \o new \o SubSeq(s, i + Len(old), Len(s))

\* strings.ReplaceAll(s, old, new): non-overlapping occurrences, left to right;
\* an empty old matches before every character and at the end
RECURSIVE ReplaceAll(_, _, _)
ReplaceAll(s, old, new) ==
    IF old = <<>>
    THEN IF s = <<>> THEN new
         ELSE new \o <<Head(s)>> \o ReplaceAll(Tail(s), old, new)
    ELSE LET i == Index(s, old)
         IN  IF i = 0 THEN s
             ELSE SubSeq(s, 1, i - 1) \o new
                  \o ReplaceAll(SubSeq(s, i + Len(old), Len(s)), old, new)

\* ---------------------------------------------------------- path mapping
\* Config.PathMappings is a Go map remote -> local: a set of pairs with
\* distinct remote keys.  `range` visits the pairs in an unspecified order,
\* so each mapping operator yields the set of results the loop can return.

\* a mapping that rewrites the canonical prefix only at the start of the path
applyPathMappingAtStart(path, mappings) ==
    LET hit == {pm \in mappings : Index(path, pm.remote) = 1}
    IN  IF hit = {} THEN {path}
        ELSE {ReplaceFirst(path, pm.remote, pm.local) : pm \in hit}

\* applyPathMapping: the first visited pair whose remote occurs in path
applyPathMapping(path, mappings) ==
    LET hit == {pm \in mappings : Contains(path, pm.remote)}
    IN  IF hit = {} THEN {path}
        ELSE {ReplaceFirst(path, pm.remote, pm.local) : pm \in hit}

\* reversePathMapping: the first visited pair whose local occurs in path
reversePathMapping(path, mappings) ==
    LET hit == {pm \in mappings : Contains(path, pm.local)}
    IN  IF hit = {} THEN {path}
        ELSE {ReplaceFirst(path, pm.local, pm.remote) : pm \in hit}

\* applyContentPathMapping: every pair in turn, all occurrences
RECURSIVE applyContentPathMapping(_, _)
applyContentPathMapping(content, mappings) ==
    IF mappings = {} THEN {content}
    ELSE UNION {applyContentPathMapping(ReplaceAll(content, pm.remote, pm.local),
                                        mappings \ {pm}) : pm \in mappings}

\* reverseContentPathMapping: every pair in turn, all occurrences
RECURSIVE reverseContentPathMapping(_, _)
reverseContentPathMapping(content, mappings) ==
    IF mappings = {} THEN {content}
    ELSE UNION {reverseContentPathMapping(ReplaceAll(content, pm.local, pm.remote),
                                          mappings \ {pm}) : pm \in mappings}

\* ------------------------------------------------------------------ state
VARIABLES
    tenants,     \* Server.tenants: token -> Tenant (id, files, clients, lastActive)
    disk,        \* the relay's data directory: cleaned file location -> bytes
    mtime,       \* the relay's data directory: file location -> second of the last write
    net,         \* per machine, the HTTP message in flight (request or response)
    last,        \* per machine, the posted request served last and what it met
    clock,       \* wall clock in seconds (modification times, time.Now)
    local,       \* per machine, the files under claudeDir: relPath -> (data, modTime)
    fileHashes,  \* per machine, SyncService.fileHashes: relPath -> hash
    pc,          \* per machine, the position of syncOnce
    scanLog,     \* per machine, the running scan's manifest and what two scans read
    cycleLog,    \* per machine, what is remembered of its cycles
    mp,          \* the path-mapping run: configuration, path, results
    mu,          \* Server.mu: free, or held for ever by a call that waits for it
    saved,       \* config.json in dataDir: absent, or the tenants written last
    adm,         \* the registry call or admin request made last and its outcome
    svc,         \* per machine, SyncService.status and stats.LastError
    config,      \* per machine, Config.ServerURL, Token, Paused and PathMappings
    hs,          \* per machine, the relay goroutine that handles its /sync request
    gor,         \* the goroutines of machine mB's SyncService that run syncOnce
    life         \* machine mB's SyncService.running, and whether stopChan is closed

relayVars == <<tenants, disk, mtime>>
clientVars == <<local, fileHashes, pc>>
logVars == <<scanLog, cycleLog>>
adminVars == <<mu, saved, adm>>
svcVars == <<svc, config>>
conVars == <<hs, gor, life>>
vars == <<tenants, disk, mtime, net, last, clock, local, fileHashes, pc, scanLog, cycleLog, mp,
          mu, saved, adm, svc, config, hs, gor, life>>

Machines == {"mA", "mB"}
NoMsg == [kind |-> "none"]

\* ------------------------------------------------------------------ relay
\* FileInfo: path, hash, modTime, content (Size plays no part in reconciliation)
FileInfo(p, h, t, c) == [path |-> p, hash |-> h, modTime |-> t, content |-> c]

\* the zero value a missing map key yields
ZeroFileInfo == FileInfo(<<>>, EmptyString, 0, Nil)

\* encoding/json on FileInfo.Content (`omitempty`): an empty slice is omitted
\* and decodes as nil
WireFile(f) == [f EXCEPT !.content = IF GoLen(f.content) = 0 THEN Nil ELSE f.content]
WireFiles(fs) == [i \in 1..Len(fs) |-> WireFile(fs[i])]

\* a Tenant as loadConfig / CreateTenant make it
NewTenant(id, token) ==
    [id |-> id, token |-> token, files |-> EmptyMap, clients |-> EmptyMap, lastActive |-> 0]

\* filepath.Join's Clean: ".." removes the segment before it
RECURSIVE Clean(_, _)
Clean(acc, segs) ==
    IF segs = <<>> THEN acc
    ELSE LET s == Head(segs)
         IN  IF s = ".." /\ acc # <<>> /\ acc[Len(acc)] # ".."
             THEN Clean(SubSeq(acc, 1, Len(acc) - 1), Tail(segs))
             ELSE Clean(Append(acc, s), Tail(segs))

\* getTenantDataDir, relative to dataDir
getTenantDataDir(id) == <<"tenants", id>>

\* filepath.Join(tenantDir, path)
TenantFilePath(id, path) == Clean(getTenantDataDir(id), path)

\* saveTenantFile: MkdirAll + WriteFile at the joined path
saveTenantFile(id, dsk, f) == Put(dsk, TenantFilePath(id, f.path), Bytes(f.content))

\* os.WriteFile stamps the file with the time of the write: the modification
\* times of the files dsk holds, those at locs written now
touch(times, locs, now, dsk) ==
    [loc \in DOMAIN dsk |-> IF loc \in locs THEN now ELSE times[loc]]

\* (mutant) the accept test with >= for >: a tie overwrites the stored record
acceptsFileOnTie(exists, existing, f) ==
    GoLen(f.content) > 0 /\ (~exists \/ f.modTime >= existing.modTime)

\* the accept test of handleSync
acceptsFile(exists, existing, f) ==
    GoLen(f.content) > 0 /\ (~exists \/ f.modTime > existing.modTime)

\* (mutant) the stale-return test without the comparison of the hashes
returnsStoredAnyHash(exists, existing, f) ==
    exists /\ existing.modTime > f.modTime

\* the stale-return test of handleSync
returnsStored(exists, existing, f) ==
    exists /\ existing.hash # f.hash /\ existing.modTime > f.modTime

\* one iteration of handleSync's loop over req.Files; st = [files, disk, send]
syncFile(id, st, f) ==
    LET exists == f.path \in DOMAIN st.files
        existing == IF exists THEN st.files[f.path] ELSE ZeroFileInfo
        accept == acceptsFile(exists, existing, f)
        files1 == IF accept THEN Put(st.files, f.path, f) ELSE st.files
        disk1 == IF accept THEN saveTenantFile(id, st.disk, f) ELSE st.disk
        loc == TenantFilePath(id, existing.path)
        send1 == IF returnsStored(exists, existing, f) /\ loc \in DOMAIN disk1
                 THEN Append(st.send, FileInfo(existing.path, existing.hash,
                                               existing.modTime, Some(disk1[loc])))
                 ELSE st.send
    IN  [files |-> files1, disk |-> disk1, send |-> send1]

RECURSIVE syncLoop(_, _, _)
syncLoop(id, st, reqFiles) ==
    IF reqFiles = <<>> THEN st
    ELSE syncLoop(id, syncFile(id, st, Head(reqFiles)), Tail(reqFiles))

\* (mutant) only an empty manifest is taken to miss files
missingPathsIfEmpty(files, reqFiles) ==
    IF reqFiles = <<>> THEN DOMAIN files ELSE {}

\* the paths of the index that no record of the manifest names
missingPaths(files, reqFiles) ==
    {p \in DOMAIN files : \A i \in 1..Len(reqFiles) : reqFiles[i].path # p}

\* the orders in which `range tenant.Files` can visit a set of paths
Orders(S) == {o \in [1..Cardinality(S) -> S] : \A i, j \in 1..Cardinality(S) : o[i] = o[j] => i = j}

\* the second loop of handleSync, visiting the missing paths in `order`
RECURSIVE sendMissing(_, _, _)
sendMissing(id, st, order) ==
    IF order = <<>> THEN st
    ELSE LET p == Head(order)
             f == st.files[p]
             loc == TenantFilePath(id, p)
             send1 == IF loc \in DOMAIN st.disk
                      THEN Append(st.send, FileInfo(f.path, f.hash, f.modTime, Some(st.disk[loc])))
                      ELSE st.send
         IN  sendMissing(id, [st EXCEPT !.send = send1], Tail(order))

\* ClientInfo as handleSync records it
ClientInfo(reqFiles, now) == [fileCount |-> Len(reqFiles), lastSeen |-> now]

\* (mutant) handleSync dropping from the index what the manifest does not name
handleSyncMirroring(tenant, dsk, req, now, order) ==
    LET st0 == [files |-> tenant.files, disk |-> dsk, send |-> <<>>]
        st1 == syncLoop(tenant.id, st0, req.files)
        st2 == sendMissing(tenant.id, st1, order)
    IN  [tenant |-> [tenant EXCEPT !.clients = Put(tenant.clients, req.mid, ClientInfo(req.files, now)),
                                   !.files = [p \in DOMAIN st2.files \ missingPaths(st2.files, req.files)
                                                |-> st2.files[p]]],
         disk |-> st2.disk,
         send |-> st2.send]

\* the body of handleSync under s.mu: client session, both loops
handleSync(tenant, dsk, req, now, order) ==
    LET st0 == [files |-> tenant.files, disk |-> dsk, send |-> <<>>]
        st1 == syncLoop(tenant.id, st0, req.files)
        st2 == sendMissing(tenant.id, st1, order)
    IN  [tenant |-> [tenant EXCEPT !.clients = Put(tenant.clients, req.mid, ClientInfo(req.files, now)),
                                   !.files = st2.files],
         disk |-> st2.disk,
         send |-> st2.send]

\* the locations saveTenantFile writes in the first loop of handleSync
writtenBy(id, files, dsk, reqFiles) ==
    {TenantFilePath(id, reqFiles[i].path) : i \in
        {i \in DOMAIN reqFiles :
            LET before == syncLoop(id, [files |-> files, disk |-> dsk, send |-> <<>>],
                                   SubSeq(reqFiles, 1, i - 1)).files
                f == reqFiles[i]
            IN  acceptsFile(f.path \in DOMAIN before,
                            IF f.path \in DOMAIN before THEN before[f.path] ELSE ZeroFileInfo, f)}}

\* the index after the first loop of handleSync (what the second loop ranges over)
filesAfterLoop(tenant, dsk, req) ==
    syncLoop(tenant.id, [files |-> tenant.files, disk |-> dsk, send |-> <<>>], req.files).files

SyncReq(tok, mid, files) == [kind |-> "sync", token |-> tok, mid |-> mid, files |-> files]
StatsReq(tok) == [kind |-> "stats", token |-> tok]
Resp(status, files, stats) == [kind |-> "resp", status |-> status, files |-> files, stats |-> stats]
NoStats == [fileCount |-> 0, clientCount |-> 0]
NoLast == [kind |-> "none"]

\* a client posts a manifest to /sync
SendSync(m, tok, files) ==
    /\ net[m].kind = "none"
    /\ net' = [net EXCEPT ![m] = SyncReq(tok, m, files)]
    /\ last' = [last EXCEPT ![m] = NoLast]
    /\ UNCHANGED <<relayVars, clock, clientVars, logVars, mp, adminVars, conVars, svcVars>>

\* a client requests GET /stats
SendStats(m, tok) ==
    /\ net[m].kind = "none"
    /\ net' = [net EXCEPT ![m] = StatsReq(tok)]
    /\ last' = [last EXCEPT ![m] = NoLast]
    /\ UNCHANGED <<relayVars, clock, clientVars, logVars, mp, adminVars, conVars, svcVars>>

\* (mutant) tenantAuth marking every tenant active before it rejects
UnauthorizedButNoted(m) ==
    /\ mu = "free"
    /\ net[m].kind \in {"sync", "stats"}
    /\ net[m].token \notin DOMAIN tenants
    /\ net' = [net EXCEPT ![m] = Resp(401, <<>>, NoStats)]
    /\ tenants' = [k \in DOMAIN tenants |-> [tenants[k] EXCEPT !.lastActive = clock + 1]]
    /\ UNCHANGED <<disk, mtime, last, clock, clientVars, logVars, mp, adminVars, conVars, svcVars>>

\* tenantAuth rejecting a request: no tenant has the bearer token
Unauthorized(m) ==
    /\ mu = "free"
    /\ net[m].kind \in {"sync", "stats"}
    /\ net[m].token \notin DOMAIN tenants
    /\ net' = [net EXCEPT ![m] = Resp(401, <<>>, NoStats)]
    /\ UNCHANGED <<relayVars, last, clock, clientVars, logVars, mp, adminVars, conVars, svcVars>>

\* what a request meets when it is served: the indexes and the disk before it
Met(req) ==
    [kind |-> "sync", token |-> req.token, files |-> req.files,
     pre |-> [k \in DOMAIN tenants |-> tenants[k].files], preDisk |-> disk]

\* tenantAuth + handleSync on request req: the tenant, the disk and the files
\* of the response, for every order in which the index may be ranged over
Serve(req) ==
    LET t0 == [tenants[req.token] EXCEPT !.lastActive = clock]
    IN  {handleSync(t0, disk, req, clock, order) :
            order \in Orders(missingPaths(filesAfterLoop(t0, disk, req), req.files))}

\* the relay serves request req of machine m and responds
ServeSync(m, req) ==
    /\ mu = "free"
    /\ req.token \in DOMAIN tenants
    /\ \E r \in Serve(req) :
          /\ tenants' = [tenants EXCEPT ![req.token] = r.tenant]
          /\ disk' = r.disk
          /\ mtime' = touch(mtime, writtenBy(r.tenant.id, tenants[req.token].files, disk, req.files),
                            clock, r.disk)
          /\ net' = [net EXCEPT ![m] = Resp(200, WireFiles(r.send), NoStats)]

\* the records of a served request that the relay accepted (wrote)
Accepted(l) ==
    {i \in DOMAIN l.files :
        LET before == syncLoop(tenants[l.token].id,
                               [files |-> l.pre[l.token], disk |-> l.preDisk, send |-> <<>>],
                               SubSeq(l.files, 1, i - 1)).files
            f == l.files[i]
        IN  acceptsFile(f.path \in DOMAIN before,
                        IF f.path \in DOMAIN before THEN before[f.path] ELSE ZeroFileInfo, f)}

\* a served request of machine m is noted for the idempotence of the cycles:
\* it opens a quiet period of the relay for m, and closes that of the other
\* machines when it changed the index
NoteServed(m, req) ==
    cycleLog' = [o \in Machines |->
        IF o = m
        THEN [cycleLog[o] EXCEPT !.relayQuiet = TRUE, !.relayWasQuiet = cycleLog[o].relayQuiet,
                                 !.accepted = Cardinality(Accepted(Met(req)))]
        ELSE IF tenants'[req.token].files # tenants[req.token].files
             THEN [cycleLog[o] EXCEPT !.relayQuiet = FALSE]
             ELSE cycleLog[o]]

\* the relay serves the /sync request in flight from machine m
HandleSync(m) ==
    /\ net[m].kind = "sync"
    /\ ServeSync(m, net[m])
    /\ NoteServed(m, net[m])
    /\ UNCHANGED <<last, clock, clientVars, scanLog, mp, adminVars, conVars, svcVars>>

\* a caller of the HTTP API posts a manifest to /sync and the relay serves it
PostSync(m, tok, files) ==
    /\ net[m].kind = "none"
    /\ ServeSync(m, SyncReq(tok, m, files))
    /\ last' = [last EXCEPT ![m] = Met(SyncReq(tok, m, files))]
    /\ NoteServed(m, SyncReq(tok, m, files))
    /\ UNCHANGED <<clock, clientVars, scanLog, mp, adminVars, conVars, svcVars>>

\* tenantAuth + handleTenantStats
HandleTenantStats(m) ==
    /\ mu = "free"
    /\ net[m].kind = "stats"
    /\ net[m].token \in DOMAIN tenants
    /\ LET t0 == [tenants[net[m].token] EXCEPT !.lastActive = clock]
       IN  /\ tenants' = [tenants EXCEPT ![net[m].token] = t0]
           /\ net' = [net EXCEPT ![m] = Resp(200, <<>>,
                        [fileCount |-> Cardinality(DOMAIN t0.files),
                         clientCount |-> Cardinality(DOMAIN t0.clients)])]
    /\ UNCHANGED <<disk, mtime, last, clock, clientVars, logVars, mp, adminVars, conVars, svcVars>>

\* the caller of the relay's HTTP API reads the response
ReadResponse(m) ==
    /\ net[m].kind = "resp"
    /\ net' = [net EXCEPT ![m] = NoMsg]
    /\ last' = [last EXCEPT ![m] = NoLast]
    /\ UNCHANGED <<relayVars, clock, clientVars, logVars, mp, adminVars, conVars, svcVars>>

\* what is remembered of a machine's scans: the manifest of the scan in
\* progress (files), the bytes and the hash listed of every file at that scan
\* (cur) and at the one before it (prev), the paths earlier scans listed
\* (seen), whether the scan left fileHashes as it was, whether it found no
\* file and no hash memory (fresh), whether it could read claudeDir/projects
\* (rootOk) and the files below it that it could not read (unreadable)
NoScan(cur, seen) ==
    [kind |-> "none", files |-> <<>>, cur |-> cur, prev |-> EmptyMap, seen |-> seen,
     hashesSame |-> TRUE, fresh |-> FALSE, rootOk |-> TRUE, unreadable |-> {}]

\* what is remembered of a machine's cycles. Kept while they run: localQuiet
\* (no local change since the last scan) and relayQuiet (no change of the index
\* by another machine since the machine's last request was served). About the
\* running cycle: the values of these two when it scanned and when it was
\* served, and accepted (the number of its records the relay accepted). About
\* the cycle completed last: fresh, got (path and hash of the records it
\* wrote locally, less those changed locally since) and failed (the paths of
\* the records it could not write)
NoCycle ==
    [kind |-> "none", accepted |-> 0, fresh |-> FALSE, got |-> {}, failed |-> {},
     localQuiet |-> FALSE, localWasQuiet |-> FALSE,
     relayQuiet |-> FALSE, relayWasQuiet |-> FALSE]

\* NewSyncService: status Offline, no error
\* (ret: what the last call of syncOnce returned, "running" while it runs)
NewSyncService == [status |-> "Offline", lastError |-> "", ret |-> "none"]
\* a Config with server and token set, not paused, no path mapping
Configured ==
    [serverURL |-> "http://relay", token |-> "k1", paused |-> FALSE, pathMappings |-> {}]
\* (mutant) a Config counted as configured as soon as the server is set
IsConfiguredByURL(c) == c.serverURL # ""

\* Config.IsConfigured
IsConfigured(c) == c.serverURL # "" /\ c.token # ""

\* ------------------------------------------- specification: one tenant's relay
\* NewServer having loaded a registry of one tenant with an empty content directory
\* a goroutine of the relay serving /sync: where it is in tenantAuth and
\* handleSync (pos), its decoded request, the index of the record its first
\* loop is at, and its filesToSend
Handler(pos, req, i, send) == [pos |-> pos, req |-> req, i |-> i, send |-> send]
NoHandler == Handler("none", NoMsg, 0, <<>>)

\* a goroutine of the SyncService: whether it is a run loop or a SyncNow call
\* and where it is (pos); for a run loop in its select, whether the channel it
\* waits on is the service's current stopChan (cur) and whether that channel
\* is closed; whether Stop was called during the cycle it is in (stopped);
\* for a run loop, whether Stop was called since the Start that made it
\* (halted)
Goroutine(pos, cur, closed, stopped, halted) ==
    [pos |-> pos, cur |-> cur, closed |-> closed, stopped |-> stopped, halted |-> halted]
NoGoroutine == Goroutine("none", FALSE, FALSE, FALSE, FALSE)
Loops == {"g1", "g2"}
Goroutines == Loops \cup {"now"}

\* NewSyncService: not running, stopChan open
NotRunning == [running |-> FALSE, closed |-> FALSE]

\* no request is being handled by the relay and no goroutine of the
\* SyncService exists
Quiet ==
    /\ hs = [m \in Machines |-> NoHandler]
    /\ gor = [g \in Goroutines |-> NoGoroutine]
    /\ life = NotRunning

MachinesIdle ==
    /\ local = [m \in Machines |-> EmptyMap]
    /\ fileHashes = [m \in Machines |-> EmptyMap]
    /\ pc = [m \in Machines |-> "idle"]
    /\ scanLog = [m \in Machines |-> NoScan(EmptyMap, {})]
    /\ cycleLog = [m \in Machines |-> NoCycle]
    /\ net = [m \in Machines |-> NoMsg]
    /\ last = [m \in Machines |-> NoLast]
    /\ clock = 1
    /\ svc = [m \in Machines |-> NewSyncService]
    /\ config = [m \in Machines |-> Configured]

ClientsIdle == MachinesIdle /\ Quiet

\* the registry as saveConfig writes it: id and token of every tenant
Snapshot(ts) == {[id |-> ts[k].id, token |-> ts[k].token] : k \in DOMAIN ts}

\* the goroutines that call into the registry: NewServer (loadConfig), a
\* request on /admin/tenants or /admin/stats, a form posted to /admin
Callers == {"boot", "api", "ui"}

\* what a caller asked last and how far it got: result is "pending" between
\* the admin check and the operation, "hangs" when the goroutine is blocked
\* for ever, otherwise the outcome it returned
Call(kind, adminToken, id, token, result) ==
    [kind |-> kind, adminToken |-> adminToken, id |-> id, token |-> token, result |-> result]
NoCall == Call("none", "", "", "", "none")
NoAdm == [a \in Callers |-> NoCall]

\* NewServer has loaded the registry from config.json; no call holds the lock
Loaded ==
    /\ mu = "free"
    /\ saved = Some(Snapshot(tenants))
    /\ adm = NoAdm

MapOff == mp = [stage |-> "off"]

\* the files found in the data directory were written in the first second
OnDisk == mtime = [loc \in DOMAIN disk |-> 1]

RelayPaths == {<<"a">>, <<"b">>}
Datas == {<<1>>, <<2>>}
ModTimes == 1..MaxTime
\* the records a client whose mapping is empty can send: the hash is that of
\* the file's bytes, the content is those bytes or is omitted
RelayRecords ==
    {FileInfo(p, Hash(<<1>>), t, Nil) : p \in RelayPaths, t \in ModTimes}
    \cup {FileInfo(p, Hash(d), t, Some(d)) : p \in RelayPaths, d \in Datas, t \in ModTimes}
RelayManifests == UNION {[1..k -> RelayRecords] : k \in 0..MaxManifest}

InitRelay ==
    /\ tenants = [k \in {"k1"} |-> NewTenant("t1", "k1")]
    /\ disk = EmptyMap
    /\ OnDisk
    /\ ClientsIdle
    /\ Loaded
    /\ MapOff

NextRelay ==
    \/ \E files \in RelayManifests : PostSync("mA", "k1", files)
    \/ ReadResponse("mA")

SpecRelay == InitRelay /\ [][NextRelay]_vars

\* ---------------------------------------------- specification: two tenants
\* NewServer having loaded a registry of two tenants with empty content
\* directories.  Each tenant's machines hold their own bytes for the path a,
\* and a request may name any path, also one that leaves the tenant's
\* directory.
IsoTokens == {"k1", "k2"}
TenantIdOf(tok) == IF tok = "k1" THEN "t1" ELSE "t2"
OtherToken(tok) == IF tok = "k1" THEN "k2" ELSE "k1"
OwnData(tok) == IF tok = "k1" THEN <<1>> ELSE <<2>>
IsoPaths(tok) == {<<"a">>, <<"..", TenantIdOf(OtherToken(tok)), "a">>}
IsoRecords(tok) ==
    {FileInfo(p, Hash(OwnData(tok)), t, c) :
        p \in IsoPaths(tok), t \in ModTimes, c \in {Nil, Some(OwnData(tok))}}
IsoManifests(tok) == UNION {[1..k -> IsoRecords(tok)] : k \in 0..MaxManifest}

InitIso ==
    /\ tenants = [k \in IsoTokens |-> NewTenant(TenantIdOf(k), k)]
    /\ disk = EmptyMap
    /\ OnDisk
    /\ ClientsIdle
    /\ Loaded
    /\ MapOff

NextIso ==
    \/ \E tok \in IsoTokens : \E files \in IsoManifests(tok) : PostSync("mA", tok, files)
    \/ \E files \in IsoManifests("k1") : SendSync("mA", "bad", files)
    \/ \E tok \in IsoTokens \cup {"bad"} : SendStats("mA", tok)
    \/ HandleTenantStats("mA")
    \/ Unauthorized("mA")
    \/ ReadResponse("mA")

SpecIso == InitIso /\ [][NextIso]_vars

\* ------------------------------------------ specification: the path mapping
\* A configuration of one pair remote -> local and a path; the path is taken
\* to its canonical form (reversePathMapping) and back (applyPathMapping).
Chars == {"a", "b"}
Strings(n) == UNION {[1..k -> Chars] : k \in 0..n}
MappingOf(r, l) == {[remote |-> r, local |-> l]}

InitMap ==
    /\ tenants = EmptyMap
    /\ disk = EmptyMap
    /\ OnDisk
    /\ ClientsIdle
    /\ Loaded
    /\ mp \in {[stage |-> "path", remote |-> r, local |-> l, path |-> q, canon |-> <<>>, back |-> <<>>] :
                 r \in Strings(MaxPrefixLen), l \in Strings(MaxPrefixLen), q \in Strings(MaxPathLen)}

\* toCanonical: the scanner maps a local path to the path it sends
ToCanonical ==
    /\ mp.stage = "path"
    /\ \E c \in reversePathMapping(mp.path, MappingOf(mp.remote, mp.local)) :
         mp' = [mp EXCEPT !.stage = "canon", !.canon = c]
    /\ UNCHANGED <<relayVars, net, last, clock, clientVars, logVars, adminVars, conVars, svcVars>>

\* toLocal: syncOnce maps a returned path to the path it writes
ToLocal ==
    /\ mp.stage = "canon"
    /\ \E b \in applyPathMapping(mp.canon, MappingOf(mp.remote, mp.local)) :
         mp' = [mp EXCEPT !.stage = "back", !.back = b]
    /\ UNCHANGED <<relayVars, net, last, clock, clientVars, logVars, adminVars, conVars, svcVars>>

NextMap == ToCanonical \/ ToLocal

SpecMap == InitMap /\ [][NextMap]_vars

\* ----------------------------------------------------------------- client
\* Config of a machine: its token and its path mapping
ConfigToken(m) == config[m].token
PathMappings(m) == config[m].pathMappings

\* the files filepath.Walk visits under claudeDir/projects, in lexical order
ClientPaths == {<<"projects", "a">>}
WalkOrder == <<(<<"projects", "a">>), (<<"projects", "b">>)>>
ClientDatas == {<<>>, <<1>>, <<2>>}

\* a scanner that lists a changed file with its content but does not remember
\* its hash
scanFileForgetful(sc, fs, relPath, mappings) ==
    LET data == fs[relPath].data
        hashStr == Hash(data)
        oldHash == IF relPath \in DOMAIN sc.hashes THEN sc.hashes[relPath] ELSE EmptyString
    IN  {[files |-> Append(sc.files,
                     [rel |-> relPath,
                      info |-> FileInfo(remotePath, hashStr, fs[relPath].modTime,
                                        IF oldHash # hashStr THEN Some(content) ELSE Nil)]),
          hashes |-> sc.hashes] :
            remotePath \in reversePathMapping(relPath, mappings),
            content \in reverseContentPathMapping(data, mappings)}

\* the Walk callback of scanLocalFiles on the file at relPath; sc = [files, hashes].
\* Each element of files pairs the relPath with the FileInfo listed for it.
scanFile(sc, fs, relPath, mappings) ==
    LET data == fs[relPath].data
        hashStr == Hash(data)
        oldHash == IF relPath \in DOMAIN sc.hashes THEN sc.hashes[relPath] ELSE EmptyString
    IN  {[files |-> Append(sc.files,
                     [rel |-> relPath,
                      info |-> FileInfo(remotePath, hashStr, fs[relPath].modTime,
                                        IF oldHash # hashStr THEN Some(content) ELSE Nil)]),
          hashes |-> IF oldHash # hashStr THEN Put(sc.hashes, relPath, hashStr) ELSE sc.hashes] :
            remotePath \in reversePathMapping(relPath, mappings),
            content \in reverseContentPathMapping(data, mappings)}

\* scanLocalFiles: the callback on every file present, in Walk order
RECURSIVE scanWalk(_, _, _, _)
scanWalk(sc, fs, order, mappings) ==
    IF order = <<>> THEN {sc}
    ELSE IF Head(order) \notin DOMAIN fs THEN scanWalk(sc, fs, Tail(order), mappings)
    ELSE UNION {scanWalk(sc1, fs, Tail(order), mappings) :
                  sc1 \in scanFile(sc, fs, Head(order), mappings)}

scanLocalFiles(fs, hashes, mappings) ==
    scanWalk([files |-> <<>>, hashes |-> hashes], fs, WalkOrder, mappings)

\* the FileInfo records of a scan, as json.Marshal sends them
ManifestOf(files) == [i \in 1..Len(files) |-> WireFile(files[i].info)]

\* the apply loop of syncOnce: every returned record with content is written
\* at its mapped path, stamped with the time of the write
RECURSIVE applyFiles(_, _, _, _)
applyFiles(fs, respFiles, mappings, now) ==
    IF respFiles = <<>> THEN {fs}
    ELSE LET f == Head(respFiles)
         IN  IF GoLen(f.content) > 0
             THEN UNION {applyFiles(Put(fs, Clean(<<>>, localPath), [data |-> content, modTime |-> now]),
                                    Tail(respFiles), mappings, now) :
                           localPath \in applyPathMapping(f.path, mappings),
                           content \in applyContentPathMapping(Bytes(f.content), mappings)}
             ELSE applyFiles(fs, Tail(respFiles), mappings, now)

\* the records of a response that the apply loop writes
Written(respFiles) == {i \in DOMAIN respFiles : GoLen(respFiles[i].content) > 0}

\* the bytes of each file present at a scan, and the hash the scan listed for it
ScanOf(fs, files) ==
    [q \in DOMAIN fs |->
        [data |-> fs[q].data,
         hash |-> files[CHOOSE i \in DOMAIN files : files[i].rel = q].info.hash]]

\* what a scan can read of the files fs: nothing when claudeDir/projects
\* cannot be read, else the files that can be read
Readable(fs, rootOk, unreadable) ==
    IF rootOk THEN [q \in DOMAIN fs \ unreadable |-> fs[q]] ELSE EmptyMap

\* syncOnce up to the request: scan, then POST the manifest.  Walk hands an
\* unreadable root or file to the callback, which returns nil for it.
ScanThe(m, rootOk, unreadable) ==
    /\ pc[m] = "idle"
    /\ IsConfigured(config[m])
    /\ LET fs == Readable(local[m], rootOk, unreadable)
       IN  \E sc \in scanLocalFiles(fs, fileHashes[m], PathMappings(m)) :
             /\ fileHashes' = [fileHashes EXCEPT ![m] = sc.hashes]
             /\ net' = [net EXCEPT ![m] = SyncReq(ConfigToken(m), m, ManifestOf(sc.files))]
             /\ scanLog' = [scanLog EXCEPT ![m] =
                    [kind |-> "scan",
                     files |-> sc.files,
                     cur |-> ScanOf(fs, sc.files),
                     prev |-> scanLog[m].cur,
                     seen |-> scanLog[m].seen \cup DOMAIN scanLog[m].cur,
                     hashesSame |-> sc.hashes = fileHashes[m],
                     fresh |-> fileHashes[m] = EmptyMap /\ local[m] = EmptyMap,
                     rootOk |-> rootOk,
                     unreadable |-> unreadable]]
    /\ cycleLog' = [cycleLog EXCEPT ![m] =
           [@ EXCEPT !.localQuiet = TRUE, !.localWasQuiet = cycleLog[m].localQuiet]]
    /\ pc' = [pc EXCEPT ![m] = "sent"]
    /\ svc' = [svc EXCEPT ![m].status = "Syncing", ![m].ret = "running"]
    /\ UNCHANGED <<relayVars, last, clock, local, mp, adminVars, conVars, config>>

\* the cycle of a machine whose files can all be read
Scan(m) == ScanThe(m, TRUE, {})

\* the cycle of a machine that cannot read claudeDir/projects or files below it
ScanFaulty(m) ==
    \E rootOk \in BOOLEAN : \E unreadable \in SUBSET DOMAIN local[m] :
       /\ ~rootOk \/ unreadable # {}
       /\ rootOk \/ unreadable = {}
       /\ ScanThe(m, rootOk, unreadable)

\* (mutant) the apply loop giving up at the first record it cannot write
keptUntilFailure(respFiles, failing) ==
    SubSeq(respFiles, 1,
           IF failing = {} THEN Len(respFiles)
           ELSE (CHOOSE i \in failing : \A j \in failing : i <= j) - 1)

\* the records the apply loop does not `continue` past: those whose MkdirAll
\* and WriteFile succeed (failing: the indices of the others)
kept(respFiles, failing) ==
    LET F[i \in 0..Len(respFiles)] ==
          IF i = 0 THEN <<>>
          ELSE IF i \in failing THEN F[i - 1] ELSE Append(F[i - 1], respFiles[i])
    IN  F[Len(respFiles)]

\* syncOnce from the response on: apply the returned files, status Idle
ApplyThe(m, failing) ==
    /\ pc[m] = "sent"
    /\ net[m].kind = "resp"
    /\ net[m].status = 200
    /\ LET files == kept(net[m].files, failing)
       IN  /\ \E fs \in applyFiles(local[m], files, PathMappings(m), clock) :
                local' = [local EXCEPT ![m] = fs]
           /\ cycleLog' = [cycleLog EXCEPT ![m] =
                 [kind |-> "done",
                  accepted |-> 0,
                  fresh |-> scanLog[m].fresh,
                  got |-> {[path |-> files[i].path, hash |-> files[i].hash] : i \in Written(files)},
                  failed |-> {net[m].files[i].path : i \in failing},
                  localQuiet |-> cycleLog[m].localQuiet,
                  localWasQuiet |-> FALSE,
                  relayQuiet |-> cycleLog[m].relayQuiet,
                  relayWasQuiet |-> FALSE]]
    /\ scanLog' = [scanLog EXCEPT ![m] = NoScan(scanLog[m].cur, scanLog[m].seen)]
    /\ pc' = [pc EXCEPT ![m] = "idle"]
    /\ net' = [net EXCEPT ![m] = NoMsg]
    /\ svc' = [svc EXCEPT ![m] = [status |-> "Idle", lastError |-> "", ret |-> "nil"]]
    /\ UNCHANGED <<relayVars, last, clock, fileHashes, mp, adminVars, conVars, config>>

\* the cycle of a machine that can write every returned file
Apply(m) == ApplyThe(m, {})

\* the cycle of a machine that cannot write some of the returned files
ApplyFaulty(m) ==
    /\ net[m].kind = "resp"
    /\ \E failing \in SUBSET Written(net[m].files) : failing # {} /\ ApplyThe(m, failing)

\* syncOnce on a Config without server or token: status Offline, an error returned
NotConfigured(m) ==
    /\ pc[m] = "idle"
    /\ ~IsConfigured(config[m])
    /\ svc' = [svc EXCEPT ![m].status = "Offline", ![m].ret = "unconfigured"]
    /\ UNCHANGED <<relayVars, net, last, clock, clientVars, logVars, mp, adminVars, conVars, config>>

\* UpdateConfig: the service is handed another Config
UpdateConfig(m, c) ==
    /\ pc[m] = "idle"
    /\ config[m] # c
    /\ config' = [config EXCEPT ![m] = c]
    /\ UNCHANGED <<relayVars, net, last, clock, clientVars, logVars, mp, adminVars, conVars, svc>>

\* the exchange goes wrong on the way: the connection fails (request or
\* response lost), or the body of a 200 response cannot be decoded or says
\* success = false
Fault(what) == [kind |-> "fault", what |-> what]
NetFault(m, what) ==
    /\ pc[m] = "sent"
    /\ \/ net[m].kind \in {"sync", "resp"} /\ what = "network"
       \/ net[m].kind = "resp" /\ what \in {"undecodable", "unsuccessful"}
    /\ IF net[m].kind = "resp" THEN net[m].status = 200 \/ what = "network" ELSE TRUE
    /\ net' = [net EXCEPT ![m] = Fault(what)]
    /\ UNCHANGED <<relayVars, last, clock, clientVars, logVars, mp, adminVars, conVars, svcVars>>

\* sendSyncRequest returns an error: err.Error() of what went wrong
ExchangeError(msg) == IF msg.kind = "fault" THEN msg.what ELSE "HTTP"
ExchangeFailed(msg) == msg.kind = "fault" \/ (msg.kind = "resp" /\ msg.status # 200)

\* (mutant) a failed exchange taken for a completed cycle
ExchangeFailsQuietly(m) ==
    /\ pc[m] = "sent"
    /\ ExchangeFailed(net[m])
    /\ svc' = [svc EXCEPT ![m] = [status |-> "Idle", lastError |-> "", ret |-> "nil"]]
    /\ pc' = [pc EXCEPT ![m] = "idle"]
    /\ net' = [net EXCEPT ![m] = NoMsg]
    /\ scanLog' = [scanLog EXCEPT ![m] = NoScan(scanLog[m].cur, scanLog[m].seen)]
    /\ cycleLog' = [cycleLog EXCEPT ![m] =
           [NoCycle EXCEPT !.localQuiet = cycleLog[m].localQuiet,
                           !.relayQuiet = cycleLog[m].relayQuiet]]
    /\ UNCHANGED <<relayVars, last, clock, local, fileHashes, mp, adminVars, conVars, config>>

\* syncOnce when sendSyncRequest returns an error: LastError, status Error
ExchangeFails(m) ==
    /\ pc[m] = "sent"
    /\ ExchangeFailed(net[m])
    /\ svc' = [svc EXCEPT ![m] = [status |-> "Error", lastError |-> ExchangeError(net[m]),
                                  ret |-> ExchangeError(net[m])]]
    /\ pc' = [pc EXCEPT ![m] = "idle"]
    /\ net' = [net EXCEPT ![m] = NoMsg]
    /\ scanLog' = [scanLog EXCEPT ![m] = NoScan(scanLog[m].cur, scanLog[m].seen)]
    /\ cycleLog' = [cycleLog EXCEPT ![m] =
           [NoCycle EXCEPT !.localQuiet = cycleLog[m].localQuiet,
                           !.relayQuiet = cycleLog[m].relayQuiet]]
    /\ UNCHANGED <<relayVars, last, clock, local, fileHashes, mp, adminVars, conVars, config>>

\* a local change of the file at q is noted for the idempotence of the cycles
NoteLocalChange(m, q) ==
    cycleLog' = [cycleLog EXCEPT ![m] =
        [@ EXCEPT !.localQuiet = FALSE, !.got = {g \in @ : g.path # q}]]

\* the user (or Claude Code) writes a file under claudeDir/projects
LocalWrite(m, q, d) ==
    /\ IF q \in DOMAIN local[m] THEN local[m][q] # [data |-> d, modTime |-> clock] ELSE TRUE
    /\ local' = [local EXCEPT ![m] = Put(local[m], q, [data |-> d, modTime |-> clock])]
    /\ NoteLocalChange(m, q)
    /\ UNCHANGED <<relayVars, net, last, clock, fileHashes, pc, scanLog, mp, adminVars, conVars, svcVars>>

\* the user deletes a file
LocalDelete(m, q) ==
    /\ q \in DOMAIN local[m]
    /\ local' = [local EXCEPT ![m] = Drop(local[m], q)]
    /\ NoteLocalChange(m, q)
    /\ UNCHANGED <<relayVars, net, last, clock, fileHashes, pc, scanLog, mp, adminVars, conVars, svcVars>>

\* a second passes
Tick ==
    /\ clock < MaxTime
    /\ clock' = clock + 1
    /\ UNCHANGED <<relayVars, net, last, clientVars, logVars, mp, adminVars, conVars, svcVars>>

\* --------------------------------- specification: two machines of one tenant
InitClient ==
    /\ tenants = [k \in {"k1"} |-> NewTenant("t1", "k1")]
    /\ disk = EmptyMap
    /\ OnDisk
    /\ ClientsIdle
    /\ Loaded
    /\ MapOff

\* another machine of the tenant has the same file with one of the contents,
\* written at some second up to now
PeerDatas == {<<2>>}
PeerManifests ==
    {<<FileInfo(q, Hash(d), t, Some(d))>> :
        q \in ClientPaths, d \in PeerDatas, t \in 1..clock}

\* a cycle of that machine, of which only the exchange is followed: the relay
\* serves its manifest
PeerSync(m, files) ==
    /\ mu = "free"
    /\ \E r \in Serve(SyncReq(ConfigToken(m), m, files)) :
          /\ tenants' = [tenants EXCEPT ![ConfigToken(m)] = r.tenant]
          /\ disk' = r.disk
          /\ mtime' = touch(mtime, writtenBy(r.tenant.id, tenants[ConfigToken(m)].files, disk, files),
                            clock, r.disk)
    /\ NoteServed(m, SyncReq(ConfigToken(m), m, files))
    /\ UNCHANGED <<net, last, clock, clientVars, scanLog, mp, adminVars, conVars, svcVars>>

NextClient ==
    \/ Scan("mB")
    \/ HandleSync("mB")
    \/ Apply("mB")
    \/ \E q \in ClientPaths : \E d \in ClientDatas : LocalWrite("mB", q, d)
    \/ \E q \in ClientPaths : LocalDelete("mB", q)
    \/ \E files \in PeerManifests : PeerSync("mA", files)
    \/ Tick

SpecClient == InitClient /\ [][NextClient]_vars

\* ------------------------- specification: one machine, failures on the way
\* NewServer has loaded tenant t1 with two files in its content directory
\* (loadTenantData lists them without content); machine mB starts with no
\* file; its Config may come to lack the server or the token, or to hold a
\* token the relay does not know.
FailPaths == {<<"projects", "a">>, <<"projects", "b">>}
FailConfigs ==
    {Configured, [Configured EXCEPT !.token = "bad"], [Configured EXCEPT !.token = ""],
     [Configured EXCEPT !.serverURL = ""]}

\* loadTenantData: the index of the files found in the tenant's directory
loadTenantData(id, dsk, paths, t) ==
    [q \in paths |-> FileInfo(q, Hash(dsk[TenantFilePath(id, q)]), t, Nil)]

InitFail ==
    /\ disk = [loc \in {TenantFilePath("t1", q) : q \in FailPaths} |-> <<1>>]
    /\ OnDisk
    /\ tenants = [k \in {"k1"} |->
                    [NewTenant("t1", "k1") EXCEPT !.files = loadTenantData("t1", disk, FailPaths, 1)]]
    /\ ClientsIdle
    /\ Loaded
    /\ MapOff

NextFail ==
    \/ Scan("mB")
    \/ ScanFaulty("mB")
    \/ NotConfigured("mB")
    \/ \E c \in FailConfigs : UpdateConfig("mB", c)
    \/ HandleSync("mB")
    \/ Unauthorized("mB")
    \/ \E what \in {"network", "undecodable", "unsuccessful"} : NetFault("mB", what)
    \/ ExchangeFails("mB")
    \/ Apply("mB")
    \/ ApplyFaulty("mB")

SpecFail == InitFail /\ [][NextFail]_vars

\* ------------------ specification: requests with and without a valid token
\* The relay has loaded tenant t1 with two files; a caller of its HTTP API
\* sends /sync and /stats requests with the tenant's token or with a token
\* no tenant has. The request with the unknown token carries nothing or a
\* record the relay would accept from the tenant.
AuthTokens == {"k1", "bad"}
AuthManifests == {<<>>, <<FileInfo(<<"a">>, Hash(<<2>>), 1, Some(<<2>>))>>}

InitAuth == InitFail

NextAuth ==
    \/ \E files \in RelayManifests : PostSync("mA", "k1", files)
    \/ \E files \in AuthManifests : SendSync("mA", "bad", files)
    \/ \E tok \in AuthTokens : SendStats("mA", tok)
    \/ HandleTenantStats("mA")
    \/ Unauthorized("mA")
    \/ ReadResponse("mA")

SpecAuth == InitAuth /\ [][NextAuth]_vars

\* ---------------------------------- specification: the tenant registry
IsPrefix(p, q) == Len(p) <= Len(q) /\ SubSeq(q, 1, Len(p)) = p

\* filepath.Join(dataDir, "tenants", id), relative to dataDir: Join drops an
\* empty element
tenantDir(id) == IF id = "" THEN <<"tenants">> ELSE <<"tenants", id>>

\* os.RemoveAll(dir)
RemoveAll(dsk, dir) == [loc \in {l \in DOMAIN dsk : ~IsPrefix(dir, l)} |-> dsk[loc]]

\* saveConfig: it takes s.mu.RLock first. A caller that holds s.mu.Lock (the
\* RWMutex is not reentrant) waits for its own lock for ever; any other
\* caller gets the registry written to config.json.
saveConfig(ts, sv, callerHoldsLock) ==
    IF callerHoldsLock THEN [returns |-> FALSE, saved |-> sv]
    ELSE [returns |-> TRUE, saved |-> Some(Snapshot(ts))]

\* (mutant) CreateTenant without the loop over the ids
createTenantAnyId(ts, id, token) ==
    IF token \in DOMAIN ts THEN [err |-> "dup_token", tenants |-> ts]
    ELSE [err |-> "", tenants |-> Put(ts, token, NewTenant(id, token))]

\* CreateTenant up to its call of saveConfig: the error and the registry
createTenant(ts, id, token) ==
    IF token \in DOMAIN ts THEN [err |-> "dup_token", tenants |-> ts]
    ELSE IF \E k \in DOMAIN ts : ts[k].id = id THEN [err |-> "dup_id", tenants |-> ts]
    ELSE [err |-> "", tenants |-> Put(ts, token, NewTenant(id, token))]

\* DeleteTenant's search: the token of a tenant with the id, "" when the
\* loop finds none
tokenToDelete(ts, id) ==
    IF \E k \in DOMAIN ts : ts[k].id = id
    THEN {k \in DOMAIN ts : ts[k].id = id}
    ELSE {""}

\* DeleteTenant up to its call of saveConfig
deleteTenant(ts, dsk, id, tok) ==
    IF tok = "" THEN [err |-> "not_found", tenants |-> ts, disk |-> dsk]
    ELSE [err |-> "", tenants |-> Drop(ts, tok), disk |-> RemoveAll(dsk, tenantDir(id))]

\* the end of CreateTenant and DeleteTenant for caller a: an error returns
\* at once (the deferred Unlock runs); otherwise the registry and the disk
\* are changed and saveConfig is called with the lock held
Finish(a, c, err, ts, dsk) ==
    IF err # ""
    THEN /\ adm' = [adm EXCEPT ![a] = [c EXCEPT !.result = err]]
         /\ UNCHANGED <<tenants, disk, mtime, mu, saved>>
    ELSE LET sc == saveConfig(ts, saved, TRUE)
         IN  /\ tenants' = ts
             /\ disk' = dsk
             /\ mtime' = touch(mtime, {}, clock, dsk)
             /\ saved' = sc.saved
             /\ mu' = IF sc.returns THEN "free" ELSE "held"
             /\ adm' = [adm EXCEPT ![a] = [c EXCEPT !.result = IF sc.returns THEN "ok" ELSE "hangs"]]

\* caller a runs CreateTenant(c.id, _, c.token)
CreateTenant(a, c) ==
    /\ mu = "free"
    /\ LET r == createTenant(tenants, c.id, c.token)
       IN  Finish(a, c, r.err, r.tenants, disk)

\* caller a runs DeleteTenant(c.id)
DeleteTenant(a, c) ==
    /\ mu = "free"
    /\ \E tok \in tokenToDelete(tenants, c.id) :
          LET r == deleteTenant(tenants, disk, c.id, tok)
          IN  Finish(a, c, r.err, r.tenants, r.disk)

adminFrame == UNCHANGED <<net, last, clock, clientVars, logVars, mp, svcVars, conVars>>

\* the end of loadConfig: with an admin token and no tenant loaded, NewServer
\* creates the default tenant
LoadConfig ==
    /\ adm["boot"].result = "pending"
    /\ IF adm["boot"].adminToken # "" /\ DOMAIN tenants = {}
       THEN CreateTenant("boot", [adm["boot"] EXCEPT !.id = "default", !.token = adm["boot"].adminToken])
       ELSE /\ adm' = [adm EXCEPT !["boot"].result = "ok"]
            /\ UNCHANGED <<tenants, disk, mtime, mu, saved>>
    /\ adminFrame

Serving == adm["boot"].result = "ok"

\* (mutant) an admin check that takes any token given
validAdminIfGiven(ts, adminToken) == adminToken # ""

\* handleAdminTenants' admin check: some tenant has the token
validAdmin(ts, adminToken) == \E k \in DOMAIN ts : ts[k].token = adminToken

\* validateAdminToken
validateAdminToken(ts, token) == token # "" /\ token \in DOMAIN ts

\* handleAdminTenants up to the switch on the method: the admin check
AdminTenantsCheck(kind, adminToken, id, token) ==
    /\ Serving
    /\ adm["api"].result # "pending"
    /\ IF adminToken = ""
       THEN adm' = [adm EXCEPT !["api"] = Call(kind, adminToken, id, token, "unauthorized")]
       ELSE /\ mu = "free"
            /\ adm' = [adm EXCEPT !["api"] =
                         Call(kind, adminToken, id, token,
                              IF validAdmin(tenants, adminToken) THEN "pending" ELSE "unauthorized")]
    /\ UNCHANGED <<tenants, disk, mtime, mu, saved>>
    /\ adminFrame

\* handleAdminTenants' switch on the method
AdminTenantsRun ==
    /\ Serving
    /\ adm["api"].result = "pending"
    /\ adm["api"].kind \in {"list", "create", "delete", "other"}
    /\ LET c == adm["api"]
       IN  IF c.kind = "create" THEN CreateTenant("api", c)
           ELSE IF c.kind = "delete" /\ c.id # "" THEN DeleteTenant("api", c)
           ELSE /\ c.kind = "list" => mu = "free"
                /\ adm' = [adm EXCEPT !["api"].result =
                             IF c.kind = "list" THEN "ok"
                             ELSE IF c.kind = "delete" THEN "bad_request" ELSE "not_allowed"]
                /\ UNCHANGED <<tenants, disk, mtime, mu, saved>>
    /\ adminFrame

\* handleAdminStats
AdminStats(adminToken) ==
    /\ Serving
    /\ adm["api"].result # "pending"
    /\ IF adminToken = ""
       THEN adm' = [adm EXCEPT !["api"] = Call("stats", adminToken, "", "", "unauthorized")]
       ELSE /\ mu = "free"
            /\ adm' = [adm EXCEPT !["api"] = Call("stats", adminToken, "", "", "ok")]
    /\ UNCHANGED <<tenants, disk, mtime, mu, saved>>
    /\ adminFrame

\* handleAdminUI, actions create_tenant and delete_tenant: validateAdminToken
AdminUICheck(kind, adminToken, id, token) ==
    /\ Serving
    /\ adm["ui"].result # "pending"
    /\ IF adminToken = ""
       THEN adm' = [adm EXCEPT !["ui"] = Call(kind, adminToken, id, token, "unauthorized")]
       ELSE /\ mu = "free"
            /\ adm' = [adm EXCEPT !["ui"] =
                         Call(kind, adminToken, id, token,
                              IF validateAdminToken(tenants, adminToken)
                              THEN "pending" ELSE "unauthorized")]
    /\ UNCHANGED <<tenants, disk, mtime, mu, saved>>
    /\ adminFrame

\* handleAdminUI after the check: the form is read and the registry called
AdminUIRun ==
    /\ Serving
    /\ adm["ui"].result = "pending"
    /\ LET c == adm["ui"]
       IN  IF c.kind = "create" /\ (c.id = "" \/ c.token = "")
           THEN /\ adm' = [adm EXCEPT !["ui"].result = "bad_request"]
                /\ UNCHANGED <<tenants, disk, mtime, mu, saved>>
           ELSE IF c.kind = "create" THEN CreateTenant("ui", c)
           ELSE DeleteTenant("ui", c)
    /\ adminFrame

AdminTokens == {"", "k1", "bad"}
TenantIds == {"", "t1", "t2"}
TenantTokens == {"", "k1", "k2"}

\* the registries config.json may hold when the relay starts
ConfigFiles ==
    { {}, {[id |-> "t1", token |-> "k1"]},
      {[id |-> "t1", token |-> "k1"], [id |-> "t2", token |-> "k2"]},
      {[id |-> "t1", token |-> ""], [id |-> "t2", token |-> "k1"]} }

\* loadConfig up to its last statement: the tenants of config.json are in
\* the registry, each with the index of the file found in its directory
InitAdmin ==
    /\ \E cf \in ConfigFiles :
          /\ disk = [loc \in {TenantFilePath(t.id, <<"a">>) : t \in cf} |-> <<1>>]
          /\ OnDisk
          /\ tenants = [k \in {t.token : t \in cf} |->
                          LET t == CHOOSE t \in cf : t.token = k
                          IN  [NewTenant(t.id, k) EXCEPT
                                 !.files = loadTenantData(t.id, disk, {<<"a">>}, 1)]]
          /\ saved = IF cf = {} THEN Nil ELSE Some(cf)
    /\ mu = "free"
    /\ \E adminToken \in {"", "k1"} :
          adm = [NoAdm EXCEPT !["boot"] = Call("boot", adminToken, "", "", "pending")]
    /\ ClientsIdle
    /\ MapOff

NextAdmin ==
    \/ LoadConfig
    \/ \E adminToken \in AdminTokens :
          \/ AdminTenantsCheck("list", adminToken, "", "")
          \/ AdminTenantsCheck("other", adminToken, "", "")
          \/ \E id \in TenantIds : AdminTenantsCheck("delete", adminToken, id, "")
          \/ \E id \in TenantIds, token \in TenantTokens :
                AdminTenantsCheck("create", adminToken, id, token)
    \/ AdminTenantsRun
    \/ \E adminToken \in AdminTokens : AdminStats(adminToken)
    \/ \E adminToken \in AdminTokens :
          \/ \E id \in TenantIds : AdminUICheck("delete", adminToken, id, "")
          \/ \E id \in TenantIds, token \in TenantTokens :
                AdminUICheck("create", adminToken, id, token)
    \/ AdminUIRun

SpecAdmin == InitAdmin /\ [][NextAdmin]_vars

\* ------------- specification: two /sync requests handled at the same time
\* Each request is handled by its own goroutine, step by step: tenantAuth
\* (getTenantByToken under RLock, LastActive under Lock), then handleSync,
\* which takes s.mu.Lock for the client session and both loops.

\* (mutant) a lock that is granted whoever holds it
CanLockAlways(holder) == TRUE

\* s.mu can be taken when no goroutine holds it
CanLock(holder) == holder = "free"

handlerFrame ==
    UNCHANGED <<last, clock, clientVars, logVars, mp, saved, adm, svcVars, gor, life>>

\* the request of machine m reaches the relay and gets its goroutine
Arrive(m, tok, files) ==
    /\ net[m].kind = "none"
    /\ hs[m].pos = "none"
    /\ net' = [net EXCEPT ![m] = SyncReq(tok, m, files)]
    /\ hs' = [hs EXCEPT ![m] = Handler("new", SyncReq(tok, m, files), 1, <<>>)]
    /\ UNCHANGED <<tenants, disk, mtime, mu>>
    /\ handlerFrame

\* tenantAuth: getTenantByToken
Lookup(m) ==
    /\ hs[m].pos = "new"
    /\ CanLock(mu)
    /\ IF hs[m].req.token \in DOMAIN tenants
       THEN /\ hs' = [hs EXCEPT ![m].pos = "found"]
            /\ net' = net
       ELSE /\ hs' = [hs EXCEPT ![m].pos = "done"]
            /\ net' = [net EXCEPT ![m] = Resp(401, <<>>, NoStats)]
    /\ UNCHANGED <<tenants, disk, mtime, mu>>
    /\ handlerFrame

\* tenantAuth: tenant.LastActive = time.Now() under the lock
Touch(m) ==
    /\ hs[m].pos = "found"
    /\ CanLock(mu)
    /\ tenants' = [tenants EXCEPT ![hs[m].req.token].lastActive = clock]
    /\ hs' = [hs EXCEPT ![m].pos = "authed"]
    /\ UNCHANGED <<disk, mtime, net, mu>>
    /\ handlerFrame

\* handleSync: s.mu.Lock()
Lock(m) ==
    /\ hs[m].pos = "authed"
    /\ CanLock(mu)
    /\ mu' = m
    /\ hs' = [hs EXCEPT ![m].pos = "locked"]
    /\ UNCHANGED <<tenants, disk, mtime, net>>
    /\ handlerFrame

\* handleSync: tenant.Clients[req.MachineID] = ...
Session(m) ==
    /\ hs[m].pos = "locked"
    /\ tenants' = [tenants EXCEPT ![hs[m].req.token].clients =
                     Put(@, hs[m].req.mid, ClientInfo(hs[m].req.files, clock))]
    /\ hs' = [hs EXCEPT ![m].pos = "loop"]
    /\ UNCHANGED <<disk, mtime, net, mu>>
    /\ handlerFrame

\* handleSync: one iteration of the loop over req.Files
LoopStep(m) ==
    /\ hs[m].pos = "loop"
    /\ hs[m].i <= Len(hs[m].req.files)
    /\ LET tok == hs[m].req.token
           st == syncFile(tenants[tok].id,
                          [files |-> tenants[tok].files, disk |-> disk, send |-> hs[m].send],
                          hs[m].req.files[hs[m].i])
       IN  /\ tenants' = [tenants EXCEPT ![tok].files = st.files]
           /\ disk' = st.disk
           /\ mtime' = touch(mtime, writtenBy(tenants[tok].id, tenants[tok].files, disk,
                                              <<hs[m].req.files[hs[m].i]>>), clock, st.disk)
           /\ hs' = [hs EXCEPT ![m].i = @ + 1, ![m].send = st.send]
    /\ UNCHANGED <<net, mu>>
    /\ handlerFrame

\* handleSync: the loop over tenant.Files for what the client does not list
Missing(m) ==
    /\ hs[m].pos = "loop"
    /\ hs[m].i > Len(hs[m].req.files)
    /\ LET tok == hs[m].req.token
       IN  \E order \in Orders(missingPaths(tenants[tok].files, hs[m].req.files)) :
              hs' = [hs EXCEPT ![m].pos = "unlock",
                               ![m].send = sendMissing(tenants[tok].id,
                                              [files |-> tenants[tok].files, disk |-> disk,
                                               send |-> hs[m].send], order).send]
    /\ UNCHANGED <<tenants, disk, mtime, net, mu>>
    /\ handlerFrame

\* handleSync: s.mu.Unlock()
Unlock(m) ==
    /\ hs[m].pos = "unlock"
    /\ mu' = "free"
    /\ hs' = [hs EXCEPT ![m].pos = "respond"]
    /\ UNCHANGED <<tenants, disk, mtime, net>>
    /\ handlerFrame

\* handleSync: the response is encoded
Respond(m) ==
    /\ hs[m].pos = "respond"
    /\ net' = [net EXCEPT ![m] = Resp(200, WireFiles(hs[m].send), NoStats)]
    /\ hs' = [hs EXCEPT ![m].pos = "done"]
    /\ UNCHANGED <<tenants, disk, mtime, mu>>
    /\ handlerFrame

\* the next step of the goroutine that handles the request of machine m
HandlerStep(m) ==
    \/ Lookup(m) \/ Touch(m) \/ Lock(m) \/ Session(m) \/ LoopStep(m)
    \/ Missing(m) \/ Unlock(m) \/ Respond(m)

\* the records of the two requests: a newer version of the stored file, a
\* stale listing of it, and two versions of a file the relay does not hold
LockRecords ==
    { FileInfo(<<"a">>, Hash(<<2>>), 3, Some(<<2>>)),
      FileInfo(<<"a">>, Hash(<<2>>), 1, Nil),
      FileInfo(<<"b">>, Hash(<<1>>), 1, Some(<<1>>)),
      FileInfo(<<"b">>, Hash(<<2>>), 2, Some(<<2>>)) }
MaxLockManifest == 2
LockManifests == UNION {[1..k -> LockRecords] : k \in 0..MaxLockManifest}

\* the relay has loaded two tenants, each with file a written at time 2
LockDisk == [loc \in {TenantFilePath(TenantIdOf(k), <<"a">>) : k \in IsoTokens} |-> <<1>>]
LockTenants ==
    [k \in IsoTokens |->
       [NewTenant(TenantIdOf(k), k) EXCEPT
          !.files = loadTenantData(TenantIdOf(k), LockDisk, {<<"a">>}, 2)]]

InitLock ==
    /\ tenants = LockTenants
    /\ disk = LockDisk
    /\ OnDisk
    /\ MachinesIdle
    /\ Quiet
    /\ Loaded
    /\ MapOff

NextLock ==
    \/ \E files \in LockManifests : Arrive("mA", "k1", files)
    \/ \E tok \in IsoTokens, files \in LockManifests : Arrive("mB", tok, files)
    \/ \E m \in Machines : HandlerStep(m)

SpecLock == InitLock /\ [][NextLock]_vars

\* ----------------- specification: the goroutines of machine mB's service
\* Start spawns a run loop; SyncNow runs syncOnce in the caller's goroutine.
\* syncOnce is followed by its status changes only: after setStatus(Syncing)
\* it scans (scan), posts the manifest (sent), and either gets an error or
\* applies the response (apply). Its last two statements are steps of their
\* own: stats.LastError is written under s.mu (failed, applied), then
\* setStatus is called.
InCycle == {"scan", "sent", "apply", "failed", "applied"}

svcFrame == UNCHANGED <<relayVars, net, last, clock, clientVars, logVars, mp, adminVars, hs>>

\* the goroutine as it leaves syncOnce: a run loop enters its select, which
\* evaluates s.stopChan; a SyncNow call is over
Leaves(g) ==
    IF g \in Loops THEN Goroutine("wait", TRUE, life.closed, gor[g].stopped, gor[g].halted)
    ELSE NoGoroutine

\* syncOnce up to setStatus: Offline and the error, or Syncing
Begin(g) ==
    IF IsConfigured(config["mB"])
    THEN /\ svc' = [svc EXCEPT !["mB"].status = "Syncing", !["mB"].ret = "running"]
         /\ gor' = [gor EXCEPT ![g] = Goroutine("scan", FALSE, FALSE, FALSE, gor[g].halted)]
    ELSE /\ svc' = [svc EXCEPT !["mB"].status = "Offline", !["mB"].ret = "unconfigured"]
         /\ gor' = [gor EXCEPT ![g] = [Leaves(g) EXCEPT !.stopped = FALSE]]

\* Start: nothing when running; else running, a new stopChan and go s.run()
Start ==
    /\ ~life.running
    /\ \E g \in Loops :
          /\ gor[g].pos = "none"
          /\ gor' = [h \in Goroutines |->
                       IF h = g THEN Goroutine("first", FALSE, FALSE, FALSE, FALSE)
                       ELSE [gor[h] EXCEPT !.cur = FALSE]]
    /\ life' = [running |-> TRUE, closed |-> FALSE]
    /\ UNCHANGED svcVars
    /\ svcFrame

\* (mutant) a Stop that ends the goroutines that are in a cycle
StopPreempting ==
    /\ life.running
    /\ life' = [running |-> FALSE, closed |-> TRUE]
    /\ gor' = [g \in Goroutines |->
                 LET h == g \in Loops /\ gor[g].pos # "none"
                 IN  IF gor[g].pos \in InCycle THEN NoGoroutine
                     ELSE IF gor[g].cur THEN [gor[g] EXCEPT !.closed = TRUE, !.halted = h]
                     ELSE [gor[g] EXCEPT !.halted = h]]
    /\ UNCHANGED svcVars
    /\ svcFrame

\* Stop: nothing when not running; else not running and close(s.stopChan)
Stop ==
    /\ life.running
    /\ life' = [running |-> FALSE, closed |-> TRUE]
    /\ gor' = [g \in Goroutines |->
                 LET h == g \in Loops /\ gor[g].pos # "none"
                 IN  IF gor[g].pos \in InCycle THEN [gor[g] EXCEPT !.stopped = TRUE, !.halted = h]
                     ELSE IF gor[g].cur THEN [gor[g] EXCEPT !.closed = TRUE, !.halted = h]
                     ELSE [gor[g] EXCEPT !.halted = h]]
    /\ UNCHANGED svcVars
    /\ svcFrame

\* SyncNow: syncOnce in the goroutine of the caller
SyncNow ==
    /\ gor["now"].pos = "none"
    /\ Begin("now")
    /\ UNCHANGED <<config, life>>
    /\ svcFrame

\* run: the call of syncOnce before the ticker is made
FirstCycle(g) ==
    /\ gor[g].pos = "first"
    /\ Begin(g)
    /\ UNCHANGED <<config, life>>
    /\ svcFrame

\* run: the ticker fires; syncOnce unless the Config is paused
TickCycle(g) ==
    /\ gor[g].pos = "wait"
    /\ IF config["mB"].paused
       THEN /\ gor' = [gor EXCEPT ![g] = Leaves(g)]
            /\ svc' = svc
       ELSE Begin(g)
    /\ UNCHANGED <<config, life>>
    /\ svcFrame

\* run: the channel the select waits on is closed; the loop returns
StopSeen(g) ==
    /\ gor[g].pos = "wait"
    /\ gor[g].closed
    /\ gor' = [gor EXCEPT ![g] = NoGoroutine]
    /\ UNCHANGED svcVars
    /\ life' = life
    /\ svcFrame

\* syncOnce: scanLocalFiles returns (never with an error), the request is posted
ScanDone(g) ==
    /\ gor[g].pos = "scan"
    /\ gor' = [gor EXCEPT ![g].pos = "sent"]
    /\ UNCHANGED svcVars
    /\ life' = life
    /\ svcFrame

\* syncOnce: sendSyncRequest returns the files of the response
ExchangeOk(g) ==
    /\ gor[g].pos = "sent"
    /\ gor' = [gor EXCEPT ![g].pos = "apply"]
    /\ UNCHANGED svcVars
    /\ life' = life
    /\ svcFrame

\* syncOnce: sendSyncRequest returns an error; stats.LastError is set
ExchangeErr(g) ==
    /\ gor[g].pos = "sent"
    /\ svc' = [svc EXCEPT !["mB"].lastError = "network"]
    /\ gor' = [gor EXCEPT ![g].pos = "failed"]
    /\ UNCHANGED <<config, life>>
    /\ svcFrame

\* syncOnce after a failed exchange: setStatus(StatusError), the error returned
SetError(g) ==
    /\ gor[g].pos = "failed"
    /\ svc' = [svc EXCEPT !["mB"].status = "Error", !["mB"].ret = "network"]
    /\ gor' = [gor EXCEPT ![g] = Leaves(g)]
    /\ UNCHANGED <<config, life>>
    /\ svcFrame

\* syncOnce: the apply loop is over; stats.LastError is cleared
ApplyDone(g) ==
    /\ gor[g].pos = "apply"
    /\ svc' = [svc EXCEPT !["mB"].lastError = ""]
    /\ gor' = [gor EXCEPT ![g].pos = "applied"]
    /\ UNCHANGED <<config, life>>
    /\ svcFrame

\* syncOnce after the apply loop: setStatus(StatusIdle), nil returned
SetIdle(g) ==
    /\ gor[g].pos = "applied"
    /\ svc' = [svc EXCEPT !["mB"].status = "Idle", !["mB"].ret = "nil"]
    /\ gor' = [gor EXCEPT ![g] = Leaves(g)]
    /\ UNCHANGED <<config, life>>
    /\ svcFrame

\* the steps of a cycle that is under way
CycleStep(g) ==
    ScanDone(g) \/ ExchangeOk(g) \/ ExchangeErr(g) \/ SetError(g) \/ ApplyDone(g) \/ SetIdle(g)

\* the Configs the application hands over: paused or not, token set or not
SvcConfigs ==
    {Configured, [Configured EXCEPT !.paused = TRUE], [Configured EXCEPT !.token = ""]}

InitSvc == InitFail

NextSvc ==
    \/ Start
    \/ Stop
    \/ SyncNow
    \/ \E c \in SvcConfigs : UpdateConfig("mB", c)
    \/ \E g \in Loops : FirstCycle(g) \/ TickCycle(g) \/ StopSeen(g)
    \/ \E g \in Goroutines : CycleStep(g)

SpecSvc == InitSvc /\ [][NextSvc]_vars

\* the goroutines are scheduled and the HTTP client gives up after its
\* timeout: a cycle under way takes its next step
SpecSvcFair == SpecSvc /\ \A g \in Goroutines : WF_vars(CycleStep(g))

\* ------------------- specification: a path mapping of two declared pairs
\* config.json declares two pairs with distinct canonical prefixes, in an
\* order; json.Unmarshal puts them in Config.PathMappings, a Go map. A path
\* is taken to its local form (applyPathMapping) or to its canonical form
\* (reversePathMapping).
OrderPrefixes == {<<"a">>, <<"b">>, <<"a", "b">>}
OrderPairs == [remote : OrderPrefixes, local : OrderPrefixes]
\* the declarations: two pairs, in the order of the file
Declarations == {d \in [1..2 -> OrderPairs] : d[1].remote # d[2].remote}
\* the pairs of the Go map: the declaration order is not kept
PairsOf(decl) == {decl[i] : i \in DOMAIN decl}

InitOrder ==
    /\ tenants = EmptyMap
    /\ disk = EmptyMap
    /\ OnDisk
    /\ ClientsIdle
    /\ Loaded
    /\ mp \in {[stage |-> "declared", pairs |-> d, path |-> q, out |-> <<>>] :
                 d \in Declarations, q \in Strings(MaxOrderPathLen)}

\* toLocal on a path, with the two pairs configured
ToLocalDeclared ==
    /\ mp.stage = "declared"
    /\ \E b \in applyPathMapping(mp.path, PairsOf(mp.pairs)) :
         mp' = [mp EXCEPT !.stage = "local", !.out = b]
    /\ UNCHANGED <<relayVars, net, last, clock, clientVars, logVars, adminVars, conVars, svcVars>>

\* toCanonical on a path, with the two pairs configured
ToCanonicalDeclared ==
    /\ mp.stage = "declared"
    /\ \E c \in reversePathMapping(mp.path, PairsOf(mp.pairs)) :
         mp' = [mp EXCEPT !.stage = "canonical", !.out = c]
    /\ UNCHANGED <<relayVars, net, last, clock, clientVars, logVars, adminVars, conVars, svcVars>>

NextOrder == ToLocalDeclared \/ ToCanonicalDeclared

SpecOrder == InitOrder /\ [][NextOrder]_vars

\* ------------------------------- specification: the relay is restarted
\* Two tenants; a caller of the HTTP API posts manifests for the first, with
\* paths that stay in the tenant's directory or lead into the other's;
\* seconds pass; the relay process is stopped and started again on the same
\* data directory.

\* filepath.Walk(tenantDir) + filepath.Rel: the files below the tenant's
\* directory, by their path relative to it
walkTenantDir(id, dsk) ==
    LET dir == tenantDir(id)
    IN  {SubSeq(loc, Len(dir) + 1, Len(loc)) :
            loc \in {l \in DOMAIN dsk : IsPrefix(dir, l) /\ Len(l) > Len(dir)}}

\* (mutant) a loader that takes every file of the data directory's tenants
\* folder for the tenant's, whatever directory it is in
loadTenantFilesOfAll(id, dsk, times) ==
    LET locs == {l \in DOMAIN dsk : Len(l) > 2}
    IN  [q \in {SubSeq(l, 3, Len(l)) : l \in locs} |->
            LET loc == CHOOSE l \in locs : SubSeq(l, 3, Len(l)) = q
            IN  FileInfo(q, Hash(dsk[loc]), times[loc], Nil)]

\* loadTenantData on the data directory as it is: every file below the
\* tenant's directory is listed with the hash of its bytes and the
\* modification time of the file; no content is kept
loadTenantFiles(id, dsk, times) ==
    [q \in walkTenantDir(id, dsk) |->
        LET loc == tenantDir(id) \o q
        IN  FileInfo(q, Hash(dsk[loc]), times[loc], Nil)]

\* loadConfig's loop: the tenants of config.json, each with a new index
\* filled by loadTenantData and no client session
loadConfig(sv, dsk, times) ==
    IF sv = Nil THEN EmptyMap
    ELSE [k \in {t.token : t \in Bytes(sv)} |->
            LET t == CHOOSE t \in Bytes(sv) : t.token = k
            IN  [NewTenant(t.id, k) EXCEPT !.files = loadTenantFiles(t.id, dsk, times)]]

\* the relay process ends while it handles no request and NewServer runs
\* again: the registry is what loadConfig reads, the lock is free
Restart ==
    /\ \A m \in Machines : net[m].kind \notin {"sync", "stats"} /\ hs[m] = NoHandler
    /\ tenants' = loadConfig(saved, disk, mtime)
    /\ mu' = "free"
    /\ adm' = [NoAdm EXCEPT !["boot"] = Call("boot", "", "", "", "ok")]
    /\ UNCHANGED <<disk, mtime, saved, net, last, clock, clientVars, logVars, mp, conVars, svcVars>>

BootPaths == {<<"a">>, <<"..", "t2", "a">>}
BootRecords == {FileInfo(p, Hash(d), t, Some(d)) : p \in BootPaths, d \in Datas, t \in ModTimes}
BootManifests == {<<>>} \cup {<<f>> : f \in BootRecords}

InitBoot == InitIso

NextBoot ==
    \/ \E files \in BootManifests : PostSync("mA", "k1", files)
    \/ ReadResponse("mA")
    \/ Tick
    \/ Restart

SpecBoot == InitBoot /\ [][NextBoot]_vars

\* --------------- specification: a machine with a path mapping, and restarts
\* Machine mB maps the canonical prefix R to its local prefix L. Its files
\* hold either the local prefix or bytes the mapping leaves alone. It
\* cycles against a relay that may be restarted between two exchanges.
RewriteMapping == {[remote |-> <<"R">>, local |-> <<"L">>]}
RewriteDatas == {<<"L">>, <<"x">>}

InitRewrite ==
    /\ tenants = [k \in {"k1"} |-> NewTenant("t1", "k1")]
    /\ disk = EmptyMap
    /\ OnDisk
    /\ MachinesIdle
    /\ Quiet
    /\ Loaded
    /\ MapOff

\* the application hands the service the Config with the mapping
NextRewrite ==
    \/ UpdateConfig("mB", [Configured EXCEPT !.pathMappings = RewriteMapping])
    \/ Scan("mB")
    \/ HandleSync("mB")
    \/ Apply("mB")
    \/ \E q \in ClientPaths : \E d \in RewriteDatas : LocalWrite("mB", q, d)
    \/ \E q \in ClientPaths : LocalDelete("mB", q)
    \/ Tick
    \/ Restart

SpecRewrite == InitRewrite /\ [][NextRewrite]_vars

\* ------------------ specification: a machine that keeps cycling, no edits
\* The relay has loaded tenant t1 with two files written in the first
\* second. Machine mB starts with some of these paths, each with bytes and a
\* modification time of its own, and an empty hash memory; nobody edits the
\* files afterwards. The connection may fail at any exchange.
LiveFiles == [data : Datas, modTime : ModTimes]
LiveLocals == UNION {[S -> LiveFiles] : S \in SUBSET FailPaths}

InitLive ==
    /\ disk = [loc \in {TenantFilePath("t1", q) : q \in FailPaths} |-> <<1>>]
    /\ OnDisk
    /\ tenants = [k \in {"k1"} |->
                    [NewTenant("t1", "k1") EXCEPT !.files = loadTenantFiles("t1", disk, mtime)]]
    /\ local \in {[m \in Machines |-> IF m = "mB" THEN fs ELSE EmptyMap] : fs \in LiveLocals}
    /\ fileHashes = [m \in Machines |-> EmptyMap]
    /\ pc = [m \in Machines |-> "idle"]
    /\ scanLog = [m \in Machines |-> NoScan(EmptyMap, {})]
    /\ cycleLog = [m \in Machines |-> NoCycle]
    /\ net = [m \in Machines |-> NoMsg]
    /\ last = [m \in Machines |-> NoLast]
    /\ clock = MaxTime
    /\ svc = [m \in Machines |-> NewSyncService]
    /\ config = [m \in Machines |-> Configured]
    /\ Quiet
    /\ Loaded
    /\ MapOff

NextLive ==
    \/ Scan("mB")
    \/ HandleSync("mB")
    \/ NetFault("mB", "network")
    \/ ExchangeFails("mB")
    \/ Apply("mB")

SpecLive == InitLive /\ [][NextLive]_vars

\* the ticker keeps firing, the relay answers, and the HTTP client returns
SpecLiveFair ==
    /\ SpecLive
    /\ WF_vars(Scan("mB"))
    /\ WF_vars(HandleSync("mB"))
    /\ WF_vars(ExchangeFails("mB"))
    /\ WF_vars(Apply("mB"))

\* ------------- specification: DeleteTenant while a /sync is in flight
\* The goroutine of machine mA's request runs step by step, as above, and
\* DeleteTenant(id) is called at any moment at which it can take s.mu. The
\* handler keeps the *Tenant it got from tenantAuth; DeleteTenant holds
\* s.mu.Lock from its first statement to its return.
GoneIds == {"t1", "t3"}

NextGone ==
    \/ \E files \in LockManifests : Arrive("mA", "k1", files)
    \/ HandlerStep("mA")
    \/ \E id \in GoneIds :
          /\ adm["api"] = NoCall
          /\ DeleteTenant("api", Call("delete", "k1", id, "", "pending"))
          /\ adminFrame

SpecGone == InitLock /\ [][NextGone]_vars

\* a goroutine that can take a step takes one; the handler's steps that need
\* s.mu wait for it
SpecGoneFair == SpecGone /\ WF_vars(HandlerStep("mA"))

\* ================================================================ claims
\* the request of machine mA that the relay served last, and what it met
Served == last["mA"].kind = "sync" /\ net["mA"].kind = "resp" /\ net["mA"].status = 200
Req == last["mA"].files
Pre == last["mA"].pre[last["mA"].token]
PreDisk == last["mA"].preDisk
ServedId == tenants[last["mA"].token].id
Post == tenants[last["mA"].token].files
Sent == net["mA"].files
\* the manifest holds exactly one record for the path of its i-th record
OnlyRecord(i) == \A j \in DOMAIN Req : Req[j].path = Req[i].path => j = i
\* index, content directory and stored record when the i-th record is processed
StateBefore(i) ==
    syncLoop(ServedId, [files |-> Pre, disk |-> PreDisk, send |-> <<>>], SubSeq(Req, 1, i - 1))
Stored(i) == StateBefore(i).files[Req[i].path]
InIndex(i) == Req[i].path \in DOMAIN StateBefore(i).files
ReqPaths == {Req[i].path : i \in DOMAIN Req}

\* C1 (as claimed): last-writer-wins.  When the manifest's record for a path
\* and the stored record have different modTimes, after handleSync the stored
\* record carries the hash and modTime of the one with the greater modTime,
\* whichever side held it.
C1_LastWriterWins ==
    Served =>
      \A i \in DOMAIN Req :
        (OnlyRecord(i) /\ Req[i].path \in DOMAIN Pre) =>
          LET p == Req[i].path
          IN  /\ Req[i].modTime > Pre[p].modTime =>
                   (Post[p].modTime = Req[i].modTime /\ Post[p].hash = Req[i].hash)
              /\ Pre[p].modTime > Req[i].modTime => Post[p] = Pre[p]

\* C2: tie favors the server.  When the manifest's record for a path has the
\* stored record's modTime and another hash, handleSync leaves the stored
\* record and its persisted bytes unchanged, with or without content in the
\* submitted record, and the response holds no record for that path.
C2_TieFavorsServer ==
    Served =>
      \A i \in DOMAIN Req :
        LET p == Req[i].path
        IN  (OnlyRecord(i) /\ p \in DOMAIN Pre
             /\ Pre[p].modTime = Req[i].modTime /\ Pre[p].hash # Req[i].hash) =>
              /\ Post[p] = Pre[p]
              /\ disk[TenantFilePath(ServedId, p)] = PreDisk[TenantFilePath(ServedId, p)]
              /\ \A j \in DOMAIN Sent : Sent[j].path # p

\* C2 witness: a tie with another hash was served, the record carrying content
C2_Witness ==
    /\ Served
    /\ \E i \in DOMAIN Req :
         /\ Req[i].path \in DOMAIN Pre
         /\ Pre[Req[i].path].modTime = Req[i].modTime
         /\ Pre[Req[i].path].hash # Req[i].hash
         /\ GoLen(Req[i].content) > 0

\* C7: accept rule.  A record with non-empty content replaces the index entry
\* of its path and has its bytes persisted exactly when the path is not in the
\* index or its modTime is strictly greater than the stored one; otherwise, and
\* for every record without content, index and content directory stay as they
\* are.  The index after handleSync is the one the last record leaves.
C7_AcceptRule ==
    Served =>
      /\ \A i \in DOMAIN Req :
           LET f == Req[i]
               before == StateBefore(i)
               after == StateBefore(i + 1)
               newer == ~InIndex(i) \/ f.modTime > Stored(i).modTime
           IN  IF GoLen(f.content) > 0 /\ newer
               THEN /\ after.files = Put(before.files, f.path, f)
                    /\ after.disk = Put(before.disk, TenantFilePath(ServedId, f.path), Bytes(f.content))
               ELSE /\ after.files = before.files
                    /\ after.disk = before.disk
      /\ Post = StateBefore(Len(Req) + 1).files
      /\ disk = StateBefore(Len(Req) + 1).disk

\* C7 witness: a record with content was refused (stored one as new or newer)
\* after the same path had been accepted earlier
C7_Witness ==
    /\ Served
    /\ \E i \in DOMAIN Req :
         /\ GoLen(Req[i].content) > 0
         /\ InIndex(i)
         /\ Req[i].modTime <= Stored(i).modTime
         /\ Req[i].hash # Stored(i).hash
    /\ \E p \in DOMAIN Post : Post[p].modTime > 1

\* C8: stale-return rule.  For each record of the manifest whose path is in
\* the index with another hash and a strictly greater stored modTime, the
\* response holds the stored record with its persisted bytes; every record of
\* the response for a path of the manifest is such a stored record.
StaleAt(i) ==
    InIndex(i) /\ Stored(i).hash # Req[i].hash /\ Stored(i).modTime > Req[i].modTime
StoredReply(i) ==
    FileInfo(Req[i].path, Stored(i).hash, Stored(i).modTime,
             Some(StateBefore(i + 1).disk[TenantFilePath(ServedId, Req[i].path)]))
C8_StaleReturn ==
    Served =>
      /\ \A i \in DOMAIN Req :
           StaleAt(i) => \E j \in DOMAIN Sent : Sent[j] = StoredReply(i)
      /\ \A j \in DOMAIN Sent :
           Sent[j].path \in ReqPaths =>
             \E i \in DOMAIN Req : StaleAt(i) /\ Sent[j] = StoredReply(i)

\* C8 witness: a record without content met a newer stored record of another hash
C8_Witness ==
    /\ Served
    /\ \E i \in DOMAIN Req : StaleAt(i) /\ Req[i].content = Nil
    /\ Sent # <<>>

\* C9: missing-file rule.  Every path of the index that no record of the
\* manifest names is in the response with its stored hash and modTime and its
\* persisted bytes; an empty manifest is answered with every stored file.
C9_MissingFiles ==
    Served =>
      \A p \in DOMAIN Post :
        p \notin ReqPaths =>
          \E j \in DOMAIN Sent :
            Sent[j] = FileInfo(p, Post[p].hash, Post[p].modTime,
                               Some(disk[TenantFilePath(ServedId, p)]))

\* C9 witness: a manifest naming one of two stored paths was served
C9_Witness ==
    /\ Served
    /\ DOMAIN Post = RelayPaths
    /\ Cardinality(ReqPaths) = 1

\* C3 (as claimed): tenant isolation.  A /sync served for one tenant leaves
\* every other tenant's index and persisted content as they were, and its
\* response holds neither the bytes nor the content hash of another tenant.
InDirOf(loc, id) == Len(loc) >= 2 /\ SubSeq(loc, 1, 2) = getTenantDataDir(id)
C3_TenantIsolation ==
    Served =>
      \A other \in DOMAIN tenants \ {last["mA"].token} :
        /\ tenants[other].files = last["mA"].pre[other]
        /\ \A loc \in DOMAIN disk \cup DOMAIN PreDisk :
             InDirOf(loc, tenants[other].id) =>
               (loc \in DOMAIN disk /\ loc \in DOMAIN PreDisk /\ disk[loc] = PreDisk[loc])
        /\ \A j \in DOMAIN Sent :
             /\ Sent[j].content # Some(OwnData(other))
             /\ Sent[j].hash # Hash(OwnData(other))

\* the number of places at which sub occurs in s
Occurrences(s, sub) ==
    Cardinality({i \in 1..(Len(s) - Len(sub) + 1) : SubSeq(s, i, i + Len(sub) - 1) = sub})
\* the prefixes of the pair do not overlap: neither occurs in the other
NonOverlapping == ~Contains(mp.remote, mp.local) /\ ~Contains(mp.local, mp.remote)

\* C10 (as claimed): for one pair with non-overlapping prefixes,
\* toLocal(toCanonical(p)) = p for every p that contains the canonical prefix
\* exactly once.
C10_RoundTripClaimed ==
    (mp.stage = "back" /\ NonOverlapping /\ Occurrences(mp.path, mp.remote) = 1)
      => mp.back = mp.path

\* C10, for the paths that do round-trip: for one pair with non-overlapping prefixes,
\* toLocal(toCanonical(p)) = p for every p that contains the local prefix and
\* whose canonical form toCanonical(p) contains the canonical prefix exactly once.
C10_RoundTrip ==
    (mp.stage = "back" /\ NonOverlapping /\ Contains(mp.path, mp.local)
       /\ Occurrences(mp.canon, mp.remote) = 1)
      => mp.back = mp.path

\* C10 witness: a local path of two characters was mapped and mapped back
C10_Witness ==
    /\ mp.stage = "back"
    /\ NonOverlapping
    /\ Contains(mp.path, mp.local)
    /\ Occurrences(mp.canon, mp.remote) = 1
    /\ mp.canon # mp.path
    /\ Len(mp.path) > Len(mp.local)

\* ------------------------------------------------ claims about the client
\* the scan that machine mB's running cycle made, and the cycle it completed last
TheScan == scanLog["mB"]
TheCycle == cycleLog["mB"]
Scanned == pc["mB"] = "sent" /\ TheScan.kind = "scan"
Listings(q) == {i \in DOMAIN TheScan.files : TheScan.files[i].rel = q}
Listing(q) == TheScan.files[CHOOSE i \in Listings(q) : TRUE].info

\* the running cycle of mB has been served, and follows a completed cycle with
\* no local change and no change of the index by another machine in between
Again ==
    /\ Scanned
    /\ net["mB"].kind = "resp"
    /\ TheCycle.kind = "done"
    /\ TheCycle.localWasQuiet
    /\ TheCycle.relayWasQuiet

\* C4: a cycle run after a completed one, with no local change and no change
\* of the relay's index by another machine in between, is returned no file to
\* write locally, has no record accepted by the relay, and leaves fileHashes
\* unchanged.
C4_Idempotence ==
    Again => /\ Written(net["mB"].files) = {}
             /\ TheCycle.accepted = 0
             /\ TheScan.hashesSame

\* C5: after a fresh machine wrote a file the relay returned to it, its next
\* scan lists that file with the same hash and without content.
C5_DownloadNotEchoed ==
    (Scanned /\ TheCycle.kind = "done" /\ TheCycle.fresh)
      => \A g \in TheCycle.got :
           \E i \in DOMAIN TheScan.files :
              /\ TheScan.files[i].info.path = g.path
              /\ TheScan.files[i].info.hash = g.hash
              /\ TheScan.files[i].info.content = Nil

\* C6: of two consecutive scans of one scanner, the second lists every file
\* whose bytes are unchanged without content, and every file whose bytes
\* changed with its content and a hash other than the one the first listed;
\* the first scan of a path lists it with its content.
C6_ChangeDetection ==
    Scanned =>
      \A q \in DOMAIN TheScan.cur :
         /\ Cardinality(Listings(q)) = 1
         /\ (q \in DOMAIN TheScan.prev /\ TheScan.prev[q].data = TheScan.cur[q].data)
               => Listing(q).content = Nil
         /\ (q \in DOMAIN TheScan.prev /\ TheScan.prev[q].data # TheScan.cur[q].data)
               => /\ Listing(q).content = Some(TheScan.cur[q].data)
                  /\ Listing(q).hash # TheScan.prev[q].hash
         /\ (q \notin TheScan.seen /\ q \notin DOMAIN TheScan.prev)
               => Listing(q).content = Some(TheScan.cur[q].data)

\* C6 witness: a second scan lists an unchanged file without content
C6_Witness ==
    /\ Scanned
    /\ \E q \in DOMAIN TheScan.cur :
          /\ q \in DOMAIN TheScan.prev
          /\ TheScan.prev[q].data = TheScan.cur[q].data
          /\ Listing(q).content = Nil

\* ------------------------------------------- claims about failures (mB)
\* C11: when the exchange fails (connection error, a status other than 200
\* such as the 401 for an unknown token, an undecodable or unsuccessful
\* response) the cycle ends without writing a local file, with lastError set
\* to the error and status Error; and whenever the machine is idle with
\* status Error, a new cycle can start at once.
C11_ExchangeFailure ==
    /\ [][(pc["mB"] = "sent" /\ ExchangeFailed(net["mB"]) /\ pc'["mB"] # "sent")
            => /\ local' = local
               /\ svc'["mB"].status = "Error"
               /\ svc'["mB"].lastError = ExchangeError(net["mB"])
               /\ svc'["mB"].lastError # ""
               /\ pc'["mB"] = "idle"]_vars
    /\ []((pc["mB"] = "idle" /\ svc["mB"].status = "Error"
              /\ config["mB"].serverURL # "" /\ config["mB"].token # "")
            => ENABLED Scan("mB"))

\* C11 witness: a cycle that had downloaded a file earlier ended on a 401
C11_Witness ==
    /\ pc["mB"] = "idle"
    /\ svc["mB"].status = "Error"
    /\ svc["mB"].lastError = "HTTP"
    /\ local["mB"] # EmptyMap

\* C12 (as claimed): a scan that cannot read claudeDir/projects makes the cycle
\* end with status Error and no manifest sent; a scan that cannot read a file
\* below it lists the other files and goes on.
C12_ScanFailure ==
    TheScan.kind = "scan" =>
      /\ ~TheScan.rootOk => (svc["mB"].status = "Error" /\ pc["mB"] = "idle")
      /\ TheScan.rootOk =>
           /\ pc["mB"] = "sent"
           /\ {TheScan.files[i].rel : i \in DOMAIN TheScan.files}
                = DOMAIN local["mB"] \ TheScan.unreadable

\* C13: a cycle of a client whose server URL or token is empty sends nothing,
\* sets status Offline without passing through Syncing, and returns a
\* configuration error.
C13_Unconfigured ==
    [][(pc["mB"] = "idle" /\ (config["mB"].serverURL = "" \/ config["mB"].token = "")
          /\ svc'["mB"] # svc["mB"])
         => /\ svc'["mB"].status = "Offline"
            /\ svc'["mB"].ret = "unconfigured"
            /\ net' = net
            /\ pc' = pc]_vars

\* C13 witness: a client that had completed a cycle lost its token and ran a cycle
C13_Witness ==
    /\ svc["mB"].ret = "unconfigured"
    /\ svc["mB"].status = "Offline"
    /\ config["mB"].token = ""
    /\ TheCycle.kind = "done"

\* C14: when some returned files cannot be written, they are skipped (left as
\* they were), every other returned record with content is written, and the
\* cycle ends with status Idle and lastError empty.
C14_PartialApplication ==
    [][(pc["mB"] = "sent" /\ net["mB"].kind = "resp" /\ net["mB"].status = 200
          /\ pc'["mB"] = "idle")
         => /\ svc'["mB"].status = "Idle"
            /\ svc'["mB"].lastError = ""
            /\ \A i \in Written(net["mB"].files) :
                 LET f == net["mB"].files[i]
                 IN  IF f.path \in cycleLog'["mB"].failed
                     THEN IF f.path \in DOMAIN local["mB"]
                          THEN f.path \in DOMAIN local'["mB"]
                               /\ local'["mB"][f.path] = local["mB"][f.path]
                          ELSE f.path \notin DOMAIN local'["mB"]
                     ELSE f.path \in DOMAIN local'["mB"]
                          /\ local'["mB"][f.path].data = Bytes(f.content)]_vars

\* C14 witness: a cycle wrote one returned file and could not write another
C14_Witness ==
    /\ pc["mB"] = "idle"
    /\ svc["mB"].status = "Idle"
    /\ TheCycle.kind = "done"
    /\ TheCycle.failed # {}
    /\ TheCycle.got # {}

\* ------------------------------------------- claims about authorization
\* C20: a /sync or /stats request whose bearer token matches no tenant is
\* answered 401 and changes no tenant's index, client sessions or lastActive
\* and nothing of the persisted content.
C20_UnauthorizedChangesNothing ==
    [][(net["mA"].kind \in {"sync", "stats"} /\ net["mA"].token \notin DOMAIN tenants
          /\ net'["mA"] # net["mA"])
         => /\ net'["mA"].kind = "resp"
            /\ net'["mA"].status = 401
            /\ tenants' = tenants
            /\ disk' = disk]_vars

\* C20 witness: a request with an unknown token was answered 401 by a relay
\* that holds files of a tenant
C20_Witness ==
    /\ net["mA"].kind = "resp"
    /\ net["mA"].status = 401
    /\ \E k \in DOMAIN tenants : tenants[k].files # EmptyMap /\ tenants[k].lastActive > 0

\* ------------------------------------------- claims about the registry
\* the step in which caller a, past the admin check, calls the registry
Calls(a, kind) ==
    /\ adm[a].kind = kind
    /\ adm[a].result = "pending"
    /\ adm'[a].result \notin {"pending", "bad_request"}
HasId(id) == \E k \in DOMAIN tenants : tenants[k].id = id

\* C15: no two tenants share a token or an id, whatever CreateTenant and
\* DeleteTenant calls were made; a CreateTenant whose token or id is in use
\* fails with the duplicate error and leaves the registry unchanged.
C15_RegistryUniqueness ==
    /\ [](\A k1, k2 \in DOMAIN tenants :
             /\ tenants[k1].token = k1
             /\ k1 # k2 => tenants[k1].id # tenants[k2].id)
    /\ [][\A a \in {"api", "ui"} :
            (Calls(a, "create") /\ (adm[a].token \in DOMAIN tenants \/ HasId(adm[a].id)))
              => /\ adm'[a].result =
                      IF adm[a].token \in DOMAIN tenants THEN "dup_token" ELSE "dup_id"
                 /\ tenants' = tenants]_vars

\* C15 witness: a create with a new token and an id in use was refused
C15_Witness ==
    \E a \in {"api", "ui"} :
       /\ adm[a].kind = "create"
       /\ adm[a].result = "dup_id"
       /\ adm[a].token \notin DOMAIN tenants
       /\ Cardinality(DOMAIN tenants) = 2

\* C16 (as claimed): a CreateTenant with an id and token not in use (the one
\* NewServer makes for the default tenant included) and a DeleteTenant of an
\* existing id return, and config.json then holds the tenants of the
\* registry.
C16_CompleteAndPersist ==
    \A a \in Callers :
       /\ adm[a].result # "hangs"
       /\ (adm[a].kind \in {"create", "delete"} /\ adm[a].result = "ok")
            => saved = Some(Snapshot(tenants))

\* C17 (as claimed): DeleteTenant(id) answers not-found exactly when no
\* tenant has the id; otherwise it succeeds, the tenant's token resolves to
\* no tenant any more and nothing is left under the tenant's directory.
C17_DeleteOutcome ==
    [][\A a \in {"api", "ui"} :
         Calls(a, "delete") =>
           /\ adm'[a].result = "not_found" <=> ~HasId(adm[a].id)
           /\ HasId(adm[a].id) =>
                /\ adm'[a].result = "ok"
                /\ \A k \in DOMAIN tenants :
                      tenants[k].id = adm[a].id => k \notin DOMAIN tenants'
                /\ \A loc \in DOMAIN disk' : ~IsPrefix(tenantDir(adm[a].id), loc)]_vars

\* C18 (as claimed): /admin/stats answers with the statistics only when
\* admin_token is the token of a current tenant, and refuses any other.
C18_AdminStatsCheck ==
    [][(adm'["api"] # adm["api"] /\ adm'["api"].kind = "stats")
         => adm'["api"].result =
              IF \E k \in DOMAIN tenants : tenants[k].token = adm'["api"].adminToken
              THEN "ok" ELSE "unauthorized"]_vars

C22_NoDeletion ==
    [][\A k \in DOMAIN tenants :
         /\ k \in DOMAIN tenants'
         /\ DOMAIN tenants[k].files \subseteq DOMAIN tenants'[k].files]_vars

\* C22 witness: a request that names one path was served by a relay whose
\* index holds another path as well
C22_Witness ==
    /\ Served
    /\ Req # <<>>
    /\ \E p \in DOMAIN Pre : p \notin ReqPaths /\ p \in DOMAIN Post

\* ------------------------------------------- claims about the hash memory
\* C25: a scan records in fileHashes the hash of every file it lists, before
\* the exchange; so the scan of the cycle that follows a failed exchange
\* (lastError still set) lists without content every file whose bytes are
\* those of the scan before.
C25_HashAtScanTime ==
    Scanned =>
      /\ \A i \in DOMAIN TheScan.files :
            /\ TheScan.files[i].rel \in DOMAIN fileHashes["mB"]
            /\ fileHashes["mB"][TheScan.files[i].rel] = TheScan.files[i].info.hash
      /\ svc["mB"].lastError # "" =>
            \A q \in DOMAIN TheScan.cur :
               (q \in DOMAIN TheScan.prev /\ TheScan.prev[q].data = TheScan.cur[q].data)
                  => Listing(q).content = Nil

\* C25 witness: after a failed exchange the next scan lists a file, unchanged
\* since the scan of the failed cycle, without content
C25_Witness ==
    /\ Scanned
    /\ svc["mB"].lastError # ""
    /\ \E q \in DOMAIN TheScan.cur :
          /\ q \in DOMAIN TheScan.prev
          /\ TheScan.prev[q].data = TheScan.cur[q].data
          /\ Listing(q).content = Nil

\* ------------------------------------------- claims about activity
\* C30 (as claimed): every /sync or /stats request that passes tenantAuth
\* sets the tenant's lastActive and the client session of the requesting
\* machine to the time of the request.
C30_ActivityTracking ==
    [][\A tok \in DOMAIN tenants :
         ((\/ (net["mA"].kind = "stats" /\ net["mA"].token = tok)
           \/ (net["mA"].kind = "none" /\ last'["mA"].kind = "sync" /\ last'["mA"].token = tok))
          /\ net'["mA"].kind = "resp" /\ net'["mA"].status = 200)
         => /\ tenants'[tok].lastActive = clock
            /\ "mA" \in DOMAIN tenants'[tok].clients
            /\ tenants'[tok].clients["mA"].lastSeen = clock]_vars

\* ------------------------------------------- claims about the relay's lock
\* what serving req1 and then req2, each in one piece, makes of the loaded
\* tenant and disk: the tenant, the disk and the files of the two responses
Serial(req1, req2) ==
    LET tok == req1.token
        t0 == [LockTenants[tok] EXCEPT !.lastActive = clock]
    IN  UNION {
          LET r1 == handleSync(t0, LockDisk, req1, clock, o1)
          IN  {[tenant |-> handleSync(r1.tenant, r1.disk, req2, clock, o2).tenant,
                disk |-> handleSync(r1.tenant, r1.disk, req2, clock, o2).disk,
                send1 |-> WireFiles(r1.send),
                send2 |-> WireFiles(handleSync(r1.tenant, r1.disk, req2, clock, o2).send)] :
                 o2 \in Orders(missingPaths(filesAfterLoop(r1.tenant, r1.disk, req2), req2.files))} :
          o1 \in Orders(missingPaths(filesAfterLoop(t0, LockDisk, req1), req1.files))}
BothDone == \A m \in Machines : hs[m].pos = "done"
SameTenant == hs["mA"].req.token = hs["mB"].req.token
\* the outcome is that of serving x's request and then y's
IsSerial(x, y) ==
    \E r \in Serial(hs[x].req, hs[y].req) :
       /\ tenants[hs[x].req.token] = r.tenant
       /\ disk = r.disk
       /\ net[x].files = r.send1
       /\ net[y].files = r.send2

\* C28: when two /sync requests of one tenant have been handled at the same
\* time, the tenant's index and sessions, the disk and the two responses are
\* those of handling one request entirely and then the other.
C28_SameTenantSerialization ==
    (BothDone /\ SameTenant) => (IsSerial("mA", "mB") \/ IsSerial("mB", "mA"))

\* C28 witness: two requests of one tenant are done, and the two serial
\* orders differ in what they leave
C28_Witness ==
    /\ BothDone
    /\ SameTenant
    /\ ~(IsSerial("mA", "mB") /\ IsSerial("mB", "mA"))
    /\ Len(hs["mA"].req.files) = 2
    /\ Len(hs["mB"].req.files) = 2

\* C29 (as claimed): while the goroutine of a request for one tenant holds
\* the lock for its reconciliation, the goroutine of a request for another
\* tenant that has not finished can take its next step.
C29_NoCrossTenantContention ==
    \A m, n \in Machines :
       (/\ mu = m
        /\ hs[n].pos \notin {"none", "done"}
        /\ hs[m].req.token # hs[n].req.token)
         => ENABLED HandlerStep(n)

\* ------------------------------------------- claims about the service
Status == svc["mB"].status
Cycling(g) == gor[g].pos \in InCycle

\* C21 (as claimed): while Config.Paused is true no run loop starts a sync
\* cycle, and a SyncNow call made then starts one.
C21_Pause ==
    /\ [][\A g \in Loops :
            (config["mB"].paused /\ ~Cycling(g)) => ~Cycling(g)']_vars
    /\ [][(config["mB"].paused /\ IsConfigured(config["mB"])
             /\ gor["now"].pos = "none" /\ gor'["now"] # gor["now"])
            => Cycling("now")']_vars

\* C23 (as claimed): every change of the status is one of the specified
\* transitions: Idle and Error are entered from Syncing only, and a cycle with
\* a valid configuration starts by setting Syncing.
C23_StatusTransitions ==
    /\ [][(Status' # Status /\ Status' \in {"Idle", "Error"}) => Status = "Syncing"]_vars
    /\ [][\A g \in Goroutines : (~Cycling(g) /\ Cycling(g)') => Status' = "Syncing"]_vars

\* C24 (as claimed): while a cycle with a valid configuration is under way
\* the status is Syncing; so the status is Idle only when no cycle is.
C24_SyncingMeansCycle ==
    (\E g \in Goroutines : Cycling(g)) => Status = "Syncing"

\* C26 (as claimed): at most one cycle started by a run loop is under way.
C26_TimerCyclesNeverOverlap ==
    Cardinality({g \in Loops : Cycling(g)}) <= 1

\* C27: a Stop called while a cycle is under way leaves the cycle where it
\* is and the status as it is; the cycle then ends, after its exchange with
\* status Error or after its apply loop with status Idle.
C27_StopNotPreemptive ==
    /\ [][(life.running /\ ~life'.running) =>
            /\ \A g \in Goroutines : Cycling(g) => gor'[g].pos = gor[g].pos
            /\ svc' = svc]_vars
    /\ [][\A g \in Goroutines :
            (gor[g].stopped /\ Cycling(g) /\ ~Cycling(g)') =>
               \/ gor[g].pos = "failed" /\ Status' = "Error"
               \/ gor[g].pos = "applied" /\ Status' = "Idle"]_vars
    /\ \A g \in Goroutines : (gor[g].stopped /\ Cycling(g)) ~> ~Cycling(g)

\* C27 witness: the cycle of a run loop has ended with status Idle after a
\* Stop called during it; the loop is back in its select
C27_Witness ==
    \E g \in Loops :
       /\ gor[g].stopped
       /\ gor[g].pos = "wait"
       /\ Status = "Idle"
       /\ ~life.running

\* ------------------------------------------- claims about the mapping order
\* the pair declared first among those whose prefix (remote or local, as
\* `side` says) occurs in the path; 0 when none does
FirstDeclared(decl, path, side) ==
    LET hits == {i \in DOMAIN decl : Contains(path, decl[i][side])}
    IN  IF hits = {} THEN 0 ELSE CHOOSE i \in hits : \A j \in hits : i <= j

\* C33 (as claimed): toLocal and toCanonical apply the pair declared first
\* among those that match the path, so their result is a function of the
\* path and the declared configuration.
C33_FirstMatchInOrder ==
    /\ mp.stage = "local" =>
          LET i == FirstDeclared(mp.pairs, mp.path, "remote")
          IN  mp.out = IF i = 0 THEN mp.path
                       ELSE ReplaceFirst(mp.path, mp.pairs[i].remote, mp.pairs[i].local)
    /\ mp.stage = "canonical" =>
          LET i == FirstDeclared(mp.pairs, mp.path, "local")
          IN  mp.out = IF i = 0 THEN mp.path
                       ELSE ReplaceFirst(mp.path, mp.pairs[i].local, mp.pairs[i].remote)

\* ------------------------------------------- claims about the first cycle
\* C39 (as claimed): when machine mB completes a cycle whose scan was its
\* first to find any file (its hash memory was empty), every path of the
\* manifest it sent is a key of the tenant's index.
C39_FirstCycleRegisters ==
    [][(/\ pc["mB"] = "sent"
        /\ pc'["mB"] = "idle"
        /\ svc'["mB"].status = "Idle"
        /\ scanLog["mB"].seen = {}
        /\ scanLog["mB"].prev = EmptyMap)
       => \A i \in DOMAIN scanLog["mB"].files :
             scanLog["mB"].files[i].info.path \in DOMAIN tenants'["k1"].files]_vars

\* C38 (as claimed): status Error goes with a non-empty LastError and status
\* Idle with an empty one, in every state of the service.
C38_StatusAndLastErrorAgree ==
    /\ Status = "Error" => svc["mB"].lastError # ""
    /\ Status = "Idle" => svc["mB"].lastError = ""

\* C36 (as claimed): a run loop begins no cycle once Stop has been called
\* after the Start that made it.
C36_NoCycleAfterStop ==
    [][\A g \in Loops : (gor[g].halted /\ ~Cycling(g)) => ~Cycling(g)']_vars

\* ------------------------------------------- claims about the restart
\* the locations of the files below the directory of the tenant with this id
Below(id) == {loc \in DOMAIN disk : IsPrefix(<<"tenants", id>>, loc) /\ Len(loc) > 2}

\* C31: a restart leaves every tenant of the registry with an index of
\* exactly the files below its directory, each under its path relative to
\* that directory, with the hash of the bytes on disk, the modification time
\* of the file and no content.
C31_IndexRebuiltOnRestart ==
    [][Restart =>
         \A k \in DOMAIN tenants' :
            LET id == tenants'[k].id
                idx == tenants'[k].files
            IN  /\ DOMAIN idx = {SubSeq(loc, 3, Len(loc)) : loc \in Below(id)}
                /\ \A loc \in Below(id) :
                      LET f == idx[SubSeq(loc, 3, Len(loc))]
                      IN  /\ f.path = SubSeq(loc, 3, Len(loc))
                          /\ f.hash = Hash(disk[loc])
                          /\ f.modTime = mtime[loc]
                          /\ f.content = Nil]_vars

\* C31 witness: the relay was restarted after the request served last; that
\* request had a record accepted for tenant t1, and the index now lists its
\* path with another modification time than the record's
C31_Witness ==
    /\ adm["boot"].kind = "boot"
    /\ last["mA"].kind = "sync"
    /\ \E i \in Accepted(last["mA"]) :
          LET f == last["mA"].files[i]
          IN  /\ f.path \in DOMAIN tenants["k1"].files
              /\ tenants["k1"].files[f.path].modTime # f.modTime
              /\ tenants["k1"].files[f.path].modTime = mtime[TenantFilePath("t1", f.path)]

\* what the relay answers to a manifest for the tenant with token tok, from
\* the registry ts: the records it accepts and the records it returns
Answer(ts, tok, reqFiles) ==
    LET st == syncLoop(ts[tok].id, [files |-> ts[tok].files, disk |-> disk, send |-> <<>>], reqFiles)
        sent == sendMissing(ts[tok].id, st,
                            CHOOSE o \in Orders(missingPaths(st.files, reqFiles)) : TRUE).send
    IN  [accepted |-> writtenBy(ts[tok].id, ts[tok].files, disk, reqFiles),
         returned |-> {sent[i] : i \in DOMAIN sent}]

\* C40 (as claimed): a restart does not change what the relay answers to
\* any manifest.
C40_RestartTransparent ==
    [][Restart =>
         \A k \in DOMAIN tenants : \A reqFiles \in BootManifests :
            k \in DOMAIN tenants' /\ Answer(tenants', k, reqFiles) = Answer(tenants, k, reqFiles)]_vars

\* ------------------------------------------- claims about the hash
\* h is the digest of raw local bytes of which c is the form sent to the
\* relay, under the Config without or with the mapping
DigestOfRaw(h, c) ==
    \E d \in RewriteDatas : \E mappings \in {{}, RewriteMapping} :
       h = Hash(d) /\ c \in reverseContentPathMapping(d, mappings)

\* C32 (as claimed): the hash of every record of the manifest in flight, of
\* the tenant's index and of the response in flight is the digest of the
\* file's raw local bytes, not of the rewritten bytes the relay holds.
C32_HashOfRawBytes ==
    /\ scanLog["mB"].kind = "scan" =>
          \A i \in DOMAIN scanLog["mB"].files :
             LET r == scanLog["mB"].files[i]
             IN  r.info.hash = Hash(scanLog["mB"].cur[r.rel].data)
    /\ \A p \in DOMAIN tenants["k1"].files :
          TenantFilePath("t1", p) \in DOMAIN disk =>
             DigestOfRaw(tenants["k1"].files[p].hash, disk[TenantFilePath("t1", p)])
    /\ (net["mB"].kind = "resp" /\ net["mB"].status = 200) =>
          \A i \in DOMAIN net["mB"].files :
             net["mB"].files[i].content # Nil =>
                DigestOfRaw(net["mB"].files[i].hash, Bytes(net["mB"].files[i].content))

\* ------------------------------------------- claims about progress
\* machine mB's file at q is newer than the relay's record for its path
NewerThanRelay(q) ==
    /\ q \in DOMAIN local["mB"]
    /\ q \in DOMAIN tenants["k1"].files => local["mB"][q].modTime > tenants["k1"].files[q].modTime

\* the relay's record for q is mB's version of the file
Uploaded(q) ==
    /\ q \in DOMAIN local["mB"]
    /\ q \in DOMAIN tenants["k1"].files
    /\ tenants["k1"].files[q].hash = Hash(local["mB"][q].data)
    /\ tenants["k1"].files[q].modTime = local["mB"][q].modTime

\* C34 (as claimed): a file of mB that is newer than the relay's record and
\* is not edited again becomes the relay's record, if from some moment on no
\* exchange fails.
C34_EventualUpload ==
    \A q \in FailPaths :
       NewerThanRelay(q) => ((<>[](net["mB"].kind # "fault")) => <>Uploaded(q))

\* machine mB holds, for every path of the index, the bytes the relay holds
Converged ==
    \A q \in DOMAIN tenants["k1"].files :
       /\ q \in DOMAIN local["mB"]
       /\ local["mB"][q].data = disk[TenantFilePath("t1", q)]

\* C37 (as claimed): if no exchange fails, the machine comes to hold the
\* relay's bytes for every path of the index, and from some moment on no
\* cycle writes a file on either side.
C37_Convergence ==
    ([](net["mB"].kind # "fault")) =>
       /\ <>[]Converged
       /\ <>[][local' = local /\ disk' = disk]_vars


\* DeleteTenant(id) has returned, and so has the handler of the request
BothFinished ==
    /\ adm["api"].kind = "delete"
    /\ adm["api"].result \in {"ok", "not_found"}
    /\ hs["mA"].pos = "done"

\* no file is persisted under the tenant's directory
NothingUnder(id) == \A loc \in DOMAIN disk : ~IsPrefix(tenantDir(id), loc)

====
